---------------------------- MODULE Spec2Model ----------------------------
(*************************************************************************)
(* Model of the audio front-end of shazam-golang: the PCM processor      *)
(* (pkg/audio/pcm.go), the preprocessing sequence of AudioUtils, the     *)
(* spectral analyzer (pkg/audio/spectral.go) and the peak extractor of   *)
(* the fingerprint package.                                              *)
(*                                                                       *)
(* Numbers.  A float64 is modelled as an exact rational <<n, d>> in      *)
(* lowest terms with d > 0, or as NaN == <<0, 0>>.  The one place where  *)
(* binary64 rounding reaches an integer result, the frame count of       *)
(* ResampleTo, is computed with correctly rounded binary64 arithmetic    *)
(* on bit sequences (F64Div, F64MulInt, F64Trunc).                       *)
(*************************************************************************)
EXTENDS Integers, Sequences, FiniteSets, TLC

VARIABLES
    input,       \* the AudioData as the loader produced it
    data,        \* the AudioData the caller currently holds
    before,      \* the argument of the last PCM call, as it was before the call
    arg,         \* the argument of the last PCM call, as it is after the call
    ret,         \* the *AudioData the last PCM call returned: <<>> (nil) or <<d>>
    err,         \* whether the last call returned a non-nil error
    hist,        \* the calls made so far, oldest first: [name, target, mono, err]
    analyzer,    \* the fields of the SpectralAnalyzerImpl
    spectrogram, \* a *Spectrogram: <<>> (nil) or <<sg>>
    extractor,   \* the fields of the PeakExtractor
    peaks,       \* the []Peak the last ExtractPeaks returned
    call         \* the last analyzer or extractor call and its arguments

pcmVars == <<input, data, before, arg, ret, err, hist>>

spectralVars == <<analyzer, spectrogram, extractor, peaks, call>>

vars == <<input, data, before, arg, ret, err, hist,
          analyzer, spectrogram, extractor, peaks, call>>

-----------------------------------------------------------------------------
(* Bounds of the model.                                                    *)

MaxLen == 2        \* longest sample sequence of an enumerated input buffer
MaxCalls == 2      \* longest sequence of PCM calls on one buffer
MaxFrames == 11    \* most frames of a test tone handed to ResampleTo
MaxRate == 15      \* highest sample rate of a test tone and of its target

-----------------------------------------------------------------------------
(* float64 values as exact rationals.                                      *)

NaN == <<0, 0>>

IsNaN(a) == a[2] = 0

Abs(x) == IF x < 0 THEN -x ELSE x

RECURSIVE GCD(_, _)
GCD(a, b) == IF b = 0 THEN Abs(a) ELSE GCD(b, a % b)

\* n/d in lowest terms with a positive denominator; 0/0 is NaN.  A nonzero
\* dividend over zero (an infinity in Go) does not arise for the inputs the
\* model enumerates.
Rat(n, d) ==
    IF d = 0 THEN NaN
    ELSE LET g == GCD(Abs(n), Abs(d))
             sg == IF d < 0 THEN -1 ELSE 1
         IN  <<(sg * n) \div g, (sg * d) \div g>>

RInt(n) == <<n, 1>>

Zero == <<0, 1>>

One == <<1, 1>>

RAdd(a, b) ==
    IF IsNaN(a) \/ IsNaN(b) THEN NaN
    ELSE LET g == GCD(a[2], b[2])
         IN  Rat(a[1] * (b[2] \div g) + b[1] * (a[2] \div g), (a[2] \div g) * b[2])

RNeg(a) == IF IsNaN(a) THEN NaN ELSE <<-a[1], a[2]>>

RSub(a, b) == RAdd(a, RNeg(b))

RMul(a, b) ==
    IF IsNaN(a) \/ IsNaN(b) THEN NaN
    ELSE LET g1 == GCD(Abs(a[1]), b[2])
             g2 == GCD(Abs(b[1]), a[2])
         IN  Rat((a[1] \div g1) * (b[1] \div g2), (a[2] \div g2) * (b[2] \div g1))

RDiv(a, b) ==
    IF IsNaN(a) \/ IsNaN(b) \/ b[1] = 0 THEN NaN
    ELSE RMul(a, Rat(b[2], b[1]))

\* Go's comparisons: every comparison with a NaN is false.
RLt(a, b) == ~IsNaN(a) /\ ~IsNaN(b) /\ a[1] * b[2] < b[1] * a[2]

RLe(a, b) == ~IsNaN(a) /\ ~IsNaN(b) /\ a[1] * b[2] <= b[1] * a[2]

RGt(a, b) == RLt(b, a)

RGe(a, b) == RLe(b, a)

\* math.Abs
RAbs(a) == IF IsNaN(a) THEN NaN ELSE <<Abs(a[1]), a[2]>>

\* Floor of a rational that is not NaN (math.Floor followed by int()).
RFloor(a) ==
    IF a[1] >= 0 THEN a[1] \div a[2] ELSE -((-a[1] + a[2] - 1) \div a[2])

-----------------------------------------------------------------------------
(* IEEE-754 binary64 on bit sequences.  A positive float is [m, e]: m is   *)
(* the significand, most significant bit first, m[1] = 1 and at most 53    *)
(* bits; the value is (m read as a binary integer) * 2^e.  Zero has an     *)
(* empty significand.  Only what ResampleTo's frame count needs is         *)
(* modelled: the quotient of two positive ints, the product of an int and  *)
(* a float, and the conversion to int, each correctly rounded (round to    *)
(* nearest, ties to even) as the Go specification requires.                *)

Precision == 53

F64Zero == [m |-> <<>>, e |-> 0]

Front(sq) == SubSeq(sq, 1, Len(sq) - 1)

Last(sq) == sq[Len(sq)]

RECURSIVE Bits(_)
Bits(n) == IF n = 0 THEN <<>> ELSE Append(Bits(n \div 2), n % 2)

RECURSIVE IntOf(_)
IntOf(b) == IF b = <<>> THEN 0 ELSE 2 * IntOf(Front(b)) + Last(b)

\* The next k bits of the binary expansion of r/o (0 <= r < o), and the
\* remainder left after them: long division, one bit per doubling of the
\* remainder (evaluated by halves to keep the evaluation shallow).
RECURSIVE FracBits(_, _, _)
FracBits(r, o, k) ==
    IF k = 0 THEN [bits |-> <<>>, rem |-> r]
    ELSE IF k = 1
    THEN LET b == IF 2 * r >= o THEN 1 ELSE 0
         IN  [bits |-> <<b>>, rem |-> 2 * r - b * o]
    ELSE LET lo == FracBits(r, o, k \div 2)
             hi == FracBits(lo.rem, o, k - k \div 2)
         IN  IF lo.rem >= 0      \* the first half is evaluated first
             THEN [bits |-> lo.bits \o hi.bits, rem |-> hi.rem]
             ELSE [bits |-> <<>>, rem |-> r]

\* The number of leading zero bits of the binary expansion of r/o, 0 < r < o.
RECURSIVE LeadingZeros(_, _)
LeadingZeros(r, o) == IF 2 * r >= o THEN 0 ELSE 1 + LeadingZeros(2 * r, o)

RECURSIVE Pow2(_)
Pow2(k) == IF k = 0 THEN 1 ELSE 2 * Pow2(k - 1)

\* b + 1 on bit sequences: the trailing ones become zeros and the zero
\* before them a one; a sequence of ones grows by one bit.
IncBits(b) ==
    LET zeros == {i \in 1..Len(b) : b[i] = 0}
    IN  IF zeros = {} THEN <<1>> \o [i \in 1..Len(b) |-> 0]
        ELSE LET j == CHOOSE i \in zeros : \A h \in zeros : h <= i
             IN  [i \in 1..Len(b) |-> IF i < j THEN b[i] ELSE IF i = j THEN 1 ELSE 0]

\* Round to nearest, ties to even: m is the kept significand with its last
\* bit at exponent e, guard the first dropped bit, sticky whether any later
\* dropped bit is set.
RoundNearestEven(m, e, guard, sticky) ==
    IF guard = 1 /\ (sticky \/ Last(m) = 1)
    THEN LET up == IncBits(m)
         IN  IF Len(up) > Len(m)
             THEN [m |-> Front(up), e |-> e + 1]
             ELSE [m |-> up, e |-> e]
    ELSE [m |-> m, e |-> e]

\* float64(t) / float64(o) for ints t, o > 0.
F64Div(t, o) ==
    LET ib == Bits(t \div o)
        z == IF ib = <<>> /\ t % o # 0 THEN LeadingZeros(t % o, o) ELSE 0
        k == Precision - Len(ib) + z
        fb == FracBits(t % o, o, k + 1)
        m == ib \o SubSeq(fb.bits, z + 1, k)
    IN  IF t % o = 0 THEN [m |-> ib, e |-> 0]
        ELSE RoundNearestEven(m, -k, fb.bits[k + 1], fb.rem # 0)

\* Schoolbook multiplication of the bits m[lo..hi] by the int n, from the
\* last bit up, with a carry coming in: the product's bits for these
\* positions and the carry going out (evaluated by halves).
RECURSIVE MulRange(_, _, _, _, _)
MulRange(m, n, lo, hi, carry) ==
    IF lo > hi THEN [bits |-> <<>>, carry |-> carry]
    ELSE IF lo = hi
    THEN LET v == m[lo] * n + carry
         IN  [bits |-> <<v % 2>>, carry |-> v \div 2]
    ELSE LET mid == (lo + hi) \div 2
             low == MulRange(m, n, mid + 1, hi, carry)
             high == MulRange(m, n, lo, mid, low.carry)
         IN  IF low.carry >= 0   \* the low half is evaluated first
             THEN [bits |-> high.bits \o low.bits, carry |-> high.carry]
             ELSE [bits |-> <<>>, carry |-> carry]

\* The bits of (m read as a binary integer) * n.
MulBits(m, n) ==
    LET r == MulRange(m, n, 1, Len(m), 0)
    IN  Bits(r.carry) \o r.bits

\* float64(n) * x for an int n >= 0.
F64MulInt(n, x) ==
    IF n = 0 \/ x.m = <<>> THEN F64Zero
    ELSE LET pb == MulBits(x.m, n)
             d == Len(pb) - Precision
         IN  IF d <= 0 THEN [m |-> pb, e |-> x.e]
             ELSE RoundNearestEven(SubSeq(pb, 1, Precision), x.e + d,
                                   pb[Precision + 1],
                                   \E i \in (Precision + 2)..Len(pb) : pb[i] = 1)

\* int(x) for a float x >= 0: truncation.
F64Trunc(x) ==
    IF x.m = <<>> THEN 0
    ELSE IF x.e >= 0 THEN IntOf(x.m) * Pow2(x.e)
    ELSE IF -x.e >= Len(x.m) THEN 0
    ELSE IntOf(SubSeq(x.m, 1, Len(x.m) + x.e))

-----------------------------------------------------------------------------
(* AudioData and the PCM processor (pkg/audio/pcm.go).  A call returns     *)
(* [in, out, err]: the argument as the call leaves it, the returned        *)
(* *AudioData (<<>> for nil, <<d>> otherwise) and whether the error is     *)
(* non-nil.                                                                *)

AudioData(samples, rate, channels, duration) ==
    [Samples |-> samples, SampleRate |-> rate, Channels |-> channels,
     Duration |-> duration]

Returned(d, r) == [in |-> d, out |-> <<r>>, err |-> FALSE]

Failed(d) == [in |-> d, out |-> <<>>, err |-> TRUE]

\* A plausible slip: the two channels are summed and never halved.
ConvertToMonoNoHalf(d) ==
    IF d.Channels = 1 THEN Returned(d, d)
    ELSE IF d.Channels # 2 THEN Failed(d)
    ELSE Returned(d, AudioData(
             [i \in 1..(Len(d.Samples) \div 2) |->
                 RAdd(d.Samples[2 * i - 1], d.Samples[2 * i])],
             d.SampleRate, 1, d.Duration))

ConvertToMono(d) ==
    IF d.Channels = 1 THEN Returned(d, d)
    ELSE IF d.Channels # 2 THEN Failed(d)
    ELSE Returned(d, AudioData(
             [i \in 1..(Len(d.Samples) \div 2) |->
                 RDiv(RAdd(d.Samples[2 * i - 1], d.Samples[2 * i]), RInt(2))],
             d.SampleRate, 1, d.Duration))

\* The running maximum of Normalize's first loop over samples[i..].
RECURSIVE MaxAbsFrom(_, _, _)
MaxAbsFrom(samples, i, maxAbs) ==
    IF i > Len(samples) THEN maxAbs
    ELSE MaxAbsFrom(samples, i + 1,
                    IF RGt(RAbs(samples[i]), maxAbs) THEN RAbs(samples[i])
                    ELSE maxAbs)

\* The running maximum without math.Abs: a plausible slip.
RECURSIVE MaxFrom(_, _, _)
MaxFrom(samples, i, maxVal) ==
    IF i > Len(samples) THEN maxVal
    ELSE MaxFrom(samples, i + 1,
                 IF RGt(samples[i], maxVal) THEN samples[i] ELSE maxVal)

Threshold == Rat(1, 1000)      \* the literal 0.001 of Normalize

NormalizeNoAbs(d) ==
    IF Len(d.Samples) = 0 THEN Returned(d, d)
    ELSE LET maxAbs == MaxFrom(d.Samples, 1, Zero)
         IN  IF RLt(maxAbs, Threshold) \/ RLt(RAbs(RSub(maxAbs, One)), Threshold)
             THEN Returned(d, d)
             ELSE Returned(d, AudioData(
                      [i \in 1..Len(d.Samples) |-> RDiv(d.Samples[i], maxAbs)],
                      d.SampleRate, d.Channels, d.Duration))

\* A plausible slip: the samples are scaled in place, in the caller's buffer.
NormalizeInPlace(d) ==
    IF Len(d.Samples) = 0 THEN Returned(d, d)
    ELSE LET maxAbs == MaxAbsFrom(d.Samples, 1, Zero)
             scaled == AudioData(
                           [i \in 1..Len(d.Samples) |-> RDiv(d.Samples[i], maxAbs)],
                           d.SampleRate, d.Channels, d.Duration)
         IN  IF RLt(maxAbs, Threshold) \/ RLt(RAbs(RSub(maxAbs, One)), Threshold)
             THEN Returned(d, d)
             ELSE Returned(scaled, scaled)

Normalize(d) ==
    IF Len(d.Samples) = 0 THEN Returned(d, d)
    ELSE LET maxAbs == MaxAbsFrom(d.Samples, 1, Zero)
         IN  IF RLt(maxAbs, Threshold) \/ RLt(RAbs(RSub(maxAbs, One)), Threshold)
             THEN Returned(d, d)
             ELSE Returned(d, AudioData(
                      [i \in 1..Len(d.Samples) |-> RDiv(d.Samples[i], maxAbs)],
                      d.SampleRate, d.Channels, d.Duration))

\* newFrames := int(float64(origFrames) * ratio), with
\* ratio := float64(targetSampleRate) / float64(data.SampleRate).
NewFrames(origFrames, sampleRate, targetSampleRate) ==
    F64Trunc(F64MulInt(origFrames, F64Div(targetSampleRate, sampleRate)))

\* One output sample of ResampleTo: frame i (from 0) of channel ch (from 0).
\* The interpolation is computed over the rationals, with the exact ratio.
Interpolate(d, targetSampleRate, origFrames, i, ch) ==
    LET origPos == RDiv(RInt(i), Rat(targetSampleRate, d.SampleRate))
        floorPos == RFloor(origPos)
        frac == RSub(origPos, RInt(floorPos))
        idx1 == IF floorPos >= origFrames THEN origFrames - 1 ELSE floorPos
        idx2 == IF floorPos + 1 >= origFrames THEN origFrames - 1 ELSE floorPos + 1
        sample1 == d.Samples[idx1 * d.Channels + ch + 1]
        sample2 == d.Samples[idx2 * d.Channels + ch + 1]
    IN  RAdd(RMul(sample1, RSub(One, frac)), RMul(sample2, frac))

\* A plausible slip: the result keeps the sample rate of the input.
ResampleToKeepsRate(d, targetSampleRate) ==
    IF d.SampleRate = targetSampleRate THEN Returned(d, d)
    ELSE LET origFrames == Len(d.Samples) \div d.Channels
             newFrames == NewFrames(origFrames, d.SampleRate, targetSampleRate)
         IN  Returned(d, AudioData(
                 [k \in 1..(newFrames * d.Channels) |->
                     Interpolate(d, targetSampleRate, origFrames,
                                 (k - 1) \div d.Channels, (k - 1) % d.Channels)],
                 d.SampleRate, d.Channels, Rat(newFrames, targetSampleRate)))

ResampleTo(d, targetSampleRate) ==
    IF d.SampleRate = targetSampleRate THEN Returned(d, d)
    ELSE LET origFrames == Len(d.Samples) \div d.Channels
             newFrames == NewFrames(origFrames, d.SampleRate, targetSampleRate)
         IN  Returned(d, AudioData(
                 [k \in 1..(newFrames * d.Channels) |->
                     Interpolate(d, targetSampleRate, origFrames,
                                 (k - 1) \div d.Channels, (k - 1) % d.Channels)],
                 targetSampleRate, d.Channels, Rat(newFrames, targetSampleRate)))

\* The preprocessing steps of AudioUtils.LoadAndPreprocess on a loaded buffer.
Preprocess(d, targetSampleRate, convertToMono) ==
    LET mono == IF convertToMono /\ d.Channels > 1 THEN ConvertToMono(d)
                ELSE Returned(d, d)
    IN  IF mono.err THEN Failed(d)
        ELSE LET a == mono.out[1]
                 res == IF a.SampleRate # targetSampleRate
                        THEN ResampleTo(a, targetSampleRate)
                        ELSE Returned(a, a)
             IN  IF res.err THEN Failed(d)
                 ELSE LET norm == Normalize(res.out[1])
                      IN  IF norm.err THEN Failed(d)
                          ELSE Returned(d, norm.out[1])

-----------------------------------------------------------------------------
(* The spectral analyzer (pkg/audio/spectral.go).  Window coefficients and *)
(* the power of the transform are computed exactly; this is possible for   *)
(* the window sizes whose cosines are rational, 1 to 4.  fft.FFT is the    *)
(* library's transform and is modelled by the discrete Fourier transform   *)
(* it computes.                                                            *)

\* math.Cos(2 * math.Pi * p / q) for ints p >= 0 and q >= 0.  p / 0 is NaN or
\* an infinity and its cosine NaN.  Only the angles with a rational cosine
\* are tabulated.
Cos2Pi(p, q) ==
    IF q = 0 THEN NaN
    ELSE LET g == GCD(p, q)
             d == q \div g
             n == (p \div g) % d
         IN  CASE d = 1 -> One
               [] d = 2 -> RInt(-1)
               [] d = 3 -> Rat(-1, 2)
               [] d = 4 -> Zero

\* A slice with its elements computed and stored: the value sq itself.
Slice(sq) == SubSeq(sq, 1, Len(sq))

\* The sum of a sequence of float64 values.
RECURSIVE RSum(_)
RSum(sq) == IF sq = <<>> THEN Zero ELSE RAdd(RSum(Front(sq)), Last(sq))

NewPCMProcessor == [TargetSampleRate |-> 44100, FrameSize |-> 1024, HopSize |-> 512]

NewSpectralAnalyzer ==
    [WindowSize |-> 1024, HopSize |-> 512, SampleRate |-> 44100,
     WindowType |-> "hamming", LogScaleBase |-> RInt(10), NormalizeSpec |-> TRUE]

\* A plausible slip: the frame that ends at the last sample is not counted.
SegmentIntoFramesNoLast(p, d) ==
    IF Len(d.Samples) < p.FrameSize THEN [frames |-> <<>>, err |-> TRUE]
    ELSE LET numFrames == (Len(d.Samples) - p.FrameSize) \div p.HopSize
         IN  [frames |->
                 [i \in 1..numFrames |->
                     [j \in 1..p.FrameSize |-> d.Samples[(i - 1) * p.HopSize + j]]],
              err |-> FALSE]

\* A plausible slip: a buffer of exactly one frame is rejected as too short.
SegmentIntoFramesShort(p, d) ==
    IF Len(d.Samples) <= p.FrameSize THEN [frames |-> <<>>, err |-> TRUE]
    ELSE LET numFrames == 1 + (Len(d.Samples) - p.FrameSize) \div p.HopSize
         IN  [frames |->
                 [i \in 1..numFrames |->
                     [j \in 1..p.FrameSize |-> d.Samples[(i - 1) * p.HopSize + j]]],
              err |-> FALSE]

\* A plausible slip: a last frame that reaches beyond the samples is added
\* and padded with zeros.
SegmentIntoFramesPadded(p, d) ==
    IF Len(d.Samples) < p.FrameSize THEN [frames |-> <<>>, err |-> TRUE]
    ELSE LET numFrames ==
                 1 + (Len(d.Samples) - p.FrameSize + p.HopSize - 1) \div p.HopSize
         IN  [frames |->
                 [i \in 1..numFrames |->
                     [j \in 1..p.FrameSize |->
                         IF (i - 1) * p.HopSize + j <= Len(d.Samples)
                         THEN d.Samples[(i - 1) * p.HopSize + j]
                         ELSE Zero]],
              err |-> FALSE]

\* The frames of p.FrameSize samples, p.HopSize apart; a frame that would
\* reach beyond the samples is padded with zeros.
SegmentIntoFrames(p, d) ==
    IF Len(d.Samples) < p.FrameSize THEN [frames |-> <<>>, err |-> TRUE]
    ELSE LET numFrames == 1 + (Len(d.Samples) - p.FrameSize) \div p.HopSize
         IN  [frames |->
                 [i \in 1..numFrames |->
                     LET startIdx == (i - 1) * p.HopSize
                         endIdx == IF startIdx + p.FrameSize > Len(d.Samples)
                                   THEN Len(d.Samples)
                                   ELSE startIdx + p.FrameSize
                     IN  [j \in 1..p.FrameSize |->
                             IF j <= endIdx - startIdx THEN d.Samples[startIdx + j]
                             ELSE Zero]],
              err |-> FALSE]

\* The window coefficient of sample i (from 0) of a frame of n samples.
WindowCoeff(windowType, i, n) ==
    CASE windowType = "hann" ->
             RMul(Rat(1, 2), RSub(One, Cos2Pi(i, n - 1)))
      [] windowType = "blackman" ->
             RAdd(RSub(Rat(21, 50), RMul(Rat(1, 2), Cos2Pi(i, n - 1))),
                  RMul(Rat(2, 25), Cos2Pi(2 * i, n - 1)))
      [] OTHER ->
             RSub(Rat(27, 50), RMul(Rat(23, 50), Cos2Pi(i, n - 1)))

ApplyWindow(s, frame) ==
    LET fr == IF Len(frame) # s.WindowSize
              THEN [i \in 1..s.WindowSize |->
                       IF i <= Len(frame) THEN frame[i] ELSE Zero]
              ELSE frame
    IN  Slice([i \in 1..Len(fr) |->
                  IF s.WindowType = "rectangular" THEN fr[i]
                  ELSE RMul(fr[i], WindowCoeff(s.WindowType, i - 1, Len(fr)))])

\* ComputePowerSpectrum(ComputeFFT(y)): |X[k]|^2 for k = 0 .. len/2, with
\* X[k] = sum_n y[n] e^(-2 pi i k n / len), that is
\* |X[k]|^2 = sum_m sum_n y[m] y[n] cos(2 pi k (m - n) / len).
ComputePowerSpectrum(y) ==
    LET w == Len(y)
    IN  Slice([b \in 1..(w \div 2 + 1) |->
                  RSum([j \in 1..(w * w) |->
                           LET m == (j - 1) \div w
                               n == (j - 1) % w
                           IN  RMul(RMul(y[m + 1], y[n + 1]),
                                    Cos2Pi(((b - 1) * (m - n + w)) % w, w))])])

\* v < 1e-10, decided on the numerator and denominator without forming
\* 10^10: n/d < 10^-10 iff n * 10^5 < d / 10^5.
LtEpsilon(v) ==
    /\ ~IsNaN(v)
    /\ \/ v[1] <= 0
       \/ v[1] < 20000 /\ v[1] * 100000 <= (v[2] - 1) \div 100000

\* The integer part, rounded down, of the logarithm of x > 0 to the base b.
RECURSIVE FloorLog(_, _)
FloorLog(x, b) ==
    IF RLt(x, One) THEN FloorLog(RMul(x, RInt(b)), b) - 1
    ELSE IF RGe(x, RInt(b)) THEN FloorLog(RDiv(x, RInt(b)), b) + 1
    ELSE 0

\* math.Log(val + 1e-10) / math.Log(10) for val >= 0, rounded down to an
\* integer: exact at the powers of ten, and of the sign and in the order of
\* the logarithm everywhere.  For val = 0 it is log10(1e-10) = -10; a
\* nonzero val of the model is far enough from the powers of ten that
\* adding 1e-10 does not change the integer part.
LogEps(val) ==
    IF IsNaN(val) THEN NaN
    ELSE IF val = Zero THEN RInt(-10)
    ELSE RInt(FloorLog(val, 10))

\* The model covers the bases the analyzer is given: 0 (linear) and 10.
ApplyLogScale(s, spectrum) ==
    IF RLe(s.LogScaleBase, One) THEN spectrum
    ELSE Slice([i \in 1..Len(spectrum) |-> LogEps(spectrum[i])])

\* The running maximum of NormalizeSpectrum's loop over spectrum[i..].
RECURSIVE MaxValFrom(_, _, _)
MaxValFrom(spectrum, i, maxVal) ==
    IF i > Len(spectrum) THEN maxVal
    ELSE MaxValFrom(spectrum, i + 1,
                    IF RGt(spectrum[i], maxVal) THEN spectrum[i] ELSE maxVal)

NormalizeSpectrum(spectrum) ==
    LET maxVal == MaxValFrom(spectrum, 1, Zero)
    IN  IF LtEpsilon(maxVal) THEN spectrum
        ELSE Slice([i \in 1..Len(spectrum) |-> RDiv(spectrum[i], maxVal)])

\* One row of the spectrogram: the loop body of ComputeSpectrogram.
ProcessFrame(s, frame) ==
    LET powerSpectrum == ComputePowerSpectrum(ApplyWindow(s, frame))
        scaled == IF RGt(s.LogScaleBase, One) THEN ApplyLogScale(s, powerSpectrum)
                  ELSE powerSpectrum
    IN  IF s.NormalizeSpec THEN NormalizeSpectrum(scaled) ELSE scaled

\* A plausible slip: only more than two channels are rejected.
MoreThanStereo(d) == d.Channels > 2

\* The test that the audio is not mono.
NotMono(d) == d.Channels # 1

\* ComputeSpectrogram on the analyzer s: [s, out, err] with s the analyzer as
\* the call leaves it, out the *Spectrogram and err whether it failed.
ComputeSpectrogram(s, d, windowSize, hopSize) ==
    LET s1 == [s EXCEPT !.WindowSize = IF windowSize > 0 THEN windowSize ELSE @,
                        !.HopSize = IF hopSize > 0 THEN hopSize ELSE @]
        s2 == [s1 EXCEPT !.SampleRate = d.SampleRate]
        processor == [NewPCMProcessor EXCEPT !.FrameSize = s2.WindowSize,
                                             !.HopSize = s2.HopSize]
        seg == SegmentIntoFrames(processor, d)
        numFrames == Len(seg.frames)
        numBins == s2.WindowSize \div 2 + 1
    IN  IF NotMono(d) THEN [s |-> s1, out |-> <<>>, err |-> TRUE]
        ELSE IF seg.err THEN [s |-> s2, out |-> <<>>, err |-> TRUE]
        ELSE [s |-> s2,
              out |-> <<[Data |-> [i \in 1..numFrames |-> ProcessFrame(s2, seg.frames[i])],
                         FreqBins |-> numBins,
                         TimeBins |-> numFrames,
                         TimePoints |-> [i \in 1..numFrames |->
                                            Rat((i - 1) * s2.HopSize, s2.SampleRate)],
                         FreqPoints |-> [i \in 1..numBins |->
                                            Rat((i - 1) * s2.SampleRate, s2.WindowSize)]]>>,
              err |-> FALSE]

-----------------------------------------------------------------------------
(* The peak extractor of the fingerprint package.  ExtractPeaks sorts the  *)
(* peaks of a frame with sort.Slice, which leaves peaks of equal amplitude *)
(* in an unspecified order: the operator yields the set of the results the *)
(* call can return.                                                        *)

NewPeakExtractor ==
    [NeighborhoodSize |-> 3, AbsoluteThreshold |-> Rat(1, 100),
     RelativeThreshold |-> Rat(1, 10), MaxPeaksPerFrame |-> 5,
     MinFrequency |-> RInt(100), MaxFrequency |-> RInt(4000)]

\* The running maximum of the loop over the frames rows[t..].
RECURSIVE MaxAmplitudeFrom(_, _, _)
MaxAmplitudeFrom(rows, t, maxAmplitude) ==
    IF t > Len(rows) THEN maxAmplitude
    ELSE MaxAmplitudeFrom(rows, t + 1, MaxValFrom(rows[t], 1, maxAmplitude))

EffectiveThreshold(p, sg) ==
    LET relativeThresholdValue ==
            RMul(MaxAmplitudeFrom(sg.Data, 1, Zero), p.RelativeThreshold)
    IN  IF RGt(relativeThresholdValue, p.AbsoluteThreshold)
        THEN relativeThresholdValue
        ELSE p.AbsoluteThreshold

\* The loop over FreqPoints from index i (from 0) on, with the indices found
\* so far: the indices [min, max] it ends with.
RECURSIVE FreqBandFrom(_, _, _, _, _)
FreqBandFrom(p, freqPoints, i, minFreqIndex, maxFreqIndex) ==
    IF i >= Len(freqPoints) THEN [min |-> minFreqIndex, max |-> maxFreqIndex]
    ELSE LET freq == freqPoints[i + 1]
             m == IF RGe(freq, p.MinFrequency) /\ minFreqIndex = 0 THEN i
                  ELSE minFreqIndex
         IN  IF RGt(freq, p.MaxFrequency) THEN [min |-> m, max |-> i - 1]
             ELSE FreqBandFrom(p, freqPoints, i + 1, m, maxFreqIndex)

FreqBand(p, sg) ==
    FreqBandFrom(p, sg.FreqPoints, 0, 0, Len(sg.FreqPoints) - 1)

\* A plausible slip: only the neighbours in the same frame are compared.
IsLocalMaxInFrame(p, sg, t, f) ==
    \A df \in (-p.NeighborhoodSize)..p.NeighborhoodSize :
        (df # 0 /\ f + df >= 0 /\ f + df < sg.FreqBins)
            => ~RGt(sg.Data[t + 1][f + df + 1], sg.Data[t + 1][f + 1])

\* A plausible slip: a neighbour of the same amplitude that was scanned
\* earlier disqualifies the bin too.
IsLocalMaxFirstSeen(p, sg, t, f) ==
    \A dt \in (-p.NeighborhoodSize)..p.NeighborhoodSize :
        \A df \in (-p.NeighborhoodSize)..p.NeighborhoodSize :
            (/\ ~(dt = 0 /\ df = 0)
             /\ t + dt >= 0 /\ t + dt < sg.TimeBins
             /\ f + df >= 0 /\ f + df < sg.FreqBins)
                => IF dt < 0 \/ (dt = 0 /\ df < 0)
                   THEN ~RGe(sg.Data[t + dt + 1][f + df + 1], sg.Data[t + 1][f + 1])
                   ELSE ~RGt(sg.Data[t + dt + 1][f + df + 1], sg.Data[t + 1][f + 1])

\* Whether no neighbour of bin f of frame t (both from 0) inside the
\* spectrogram has a higher amplitude.
IsLocalMax(p, sg, t, f) ==
    \A dt \in (-p.NeighborhoodSize)..p.NeighborhoodSize :
        \A df \in (-p.NeighborhoodSize)..p.NeighborhoodSize :
            (/\ ~(dt = 0 /\ df = 0)
             /\ t + dt >= 0 /\ t + dt < sg.TimeBins
             /\ f + df >= 0 /\ f + df < sg.FreqBins)
                => ~RGt(sg.Data[t + dt + 1][f + df + 1], sg.Data[t + 1][f + 1])

Peak(sg, t, f) ==
    [TimeIndex |-> t, FreqIndex |-> f, Time |-> sg.TimePoints[t + 1],
     Frequency |-> sg.FreqPoints[f + 1], Amplitude |-> sg.Data[t + 1][f + 1],
     IsLocalMaxima |-> TRUE]

\* framePeaks of frame t before it is sorted, in the order of the bins.
FramePeaks(p, sg, t) ==
    LET band == FreqBand(p, sg)
        threshold == EffectiveThreshold(p, sg)
        bins == [k \in 1..(band.max - band.min + 1) |-> band.min + k - 1]
        Kept(f) == /\ ~RLt(sg.Data[t + 1][f + 1], threshold)
                   /\ IsLocalMax(p, sg, t, f)
        kept == SelectSeq(bins, Kept)
    IN  [k \in 1..Len(kept) |-> Peak(sg, t, kept[k])]

\* Every order of the peaks, sorted or not: a plausible slip.
RECURSIVE AnyOrder(_)
AnyOrder(ps) ==
    IF ps = {} THEN {<<>>}
    ELSE UNION {{<<x>> \o r : r \in AnyOrder(ps \ {x})} : x \in ps}

\* The orders sort.Slice can leave the peaks ps in: amplitude descending,
\* peaks of equal amplitude in any order.
RECURSIVE SortSlice(_)
SortSlice(ps) ==
    IF ps = {} THEN {<<>>}
    ELSE UNION {{<<x>> \o r : r \in SortSlice(ps \ {x})} :
                   x \in {y \in ps : \A z \in ps : ~RGt(z.Amplitude, y.Amplitude)}}

\* A plausible slip: the last maxPeaksPerFrame peaks are kept.
LastPeaks(framePeaks, maxPeaksPerFrame) ==
    IF Len(framePeaks) > maxPeaksPerFrame
    THEN SubSeq(framePeaks, Len(framePeaks) - maxPeaksPerFrame + 1, Len(framePeaks))
    ELSE framePeaks

\* framePeaks[:p.MaxPeaksPerFrame] when there are more peaks than that.
LimitPeaks(framePeaks, maxPeaksPerFrame) ==
    IF Len(framePeaks) > maxPeaksPerFrame
    THEN SubSeq(framePeaks, 1, maxPeaksPerFrame)
    ELSE framePeaks

\* The values allPeaks can have after the frames t, t + 1, ... are appended
\* to nothing.
RECURSIVE AllPeaksFrom(_, _, _)
AllPeaksFrom(p, sg, t) ==
    IF t >= sg.TimeBins THEN {<<>>}
    ELSE LET framePeaks == FramePeaks(p, sg, t)
         IN  {LimitPeaks(sorted, p.MaxPeaksPerFrame) \o rest :
                  sorted \in SortSlice({framePeaks[k] : k \in DOMAIN framePeaks}),
                  rest \in AllPeaksFrom(p, sg, t + 1)}

\* The results ExtractPeaks can return for the *Spectrogram sgp.
ExtractPeaks(p, sgp) ==
    IF sgp = <<>> \/ Len(sgp[1].Data) = 0 \/ Len(sgp[1].Data[1]) = 0
    THEN {[out |-> <<>>, err |-> TRUE]}
    ELSE {[out |-> pk, err |-> FALSE] : pk \in AllPeaksFrom(p, sgp[1], 0)}

-----------------------------------------------------------------------------
(* The loaders and AudioUtils.  A stream is what the decoder of a file     *)
(* yields: [kind, bitDepth, rate, channels, pcm], kind the format of the   *)
(* content and pcm the interleaved integer samples.  The decoders are the  *)
(* libraries'; a decoder rejects content of another kind.  Load returns    *)
(* [out, err].                                                             *)

AudioFormats == {"wav", "mp3", "flac"}

LoadFailed == [out |-> <<>>, err |-> TRUE]

LoadReturned(d) == [out |-> <<d>>, err |-> FALSE]

WAVLoad(stream, format) ==
    IF format # "wav" \/ stream.kind # "wav" THEN LoadFailed
    ELSE LET numFrames == Len(stream.pcm) \div stream.channels
             maxValue == Pow2(stream.bitDepth - 1)
         IN  LoadReturned(AudioData(
                 [i \in 1..Len(stream.pcm) |-> Rat(stream.pcm[i], maxValue)],
                 stream.rate, stream.channels, Rat(numFrames, stream.rate)))

\* The bytes the mp3 decoder yields: 16-bit little-endian samples.
PCMBytes(pcm) ==
    [k \in 1..(2 * Len(pcm)) |->
        LET u == pcm[(k + 1) \div 2] % 65536
        IN  IF k % 2 = 1 THEN u % 256 ELSE u \div 256]

\* int16(lo) | (int16(hi) << 8)
Int16LE(lo, hi) ==
    LET u == lo + 256 * hi
    IN  IF u >= 32768 THEN u - 65536 ELSE u

MP3Load(stream, format) ==
    IF format # "mp3" \/ stream.kind # "mp3" THEN LoadFailed
    ELSE LET pcmData == PCMBytes(stream.pcm)
             channels == 2
             numSamples == Len(pcmData) \div 4
         IN  LoadReturned(AudioData(
                 [k \in 1..(numSamples * channels) |->
                     LET i == (k - 1) \div channels
                         ch == (k - 1) % channels
                         sampleIdx == i * 4 + ch * 2
                     IN  IF sampleIdx + 1 < Len(pcmData)
                         THEN Rat(Int16LE(pcmData[sampleIdx + 1],
                                          pcmData[sampleIdx + 2]), 32768)
                         ELSE Zero],
                 stream.rate, channels, Rat(numSamples, stream.rate)))

\* The frames of a flac stream: one block, with a subframe for each channel.
FLACFrames(stream) ==
    IF stream.pcm = <<>> THEN <<>>
    ELSE <<[i \in 1..stream.channels |->
              [j \in 1..(Len(stream.pcm) \div stream.channels) |->
                  stream.pcm[(j - 1) * stream.channels + i]]]>>

\* The loop of FLACLoader.Load over the frames n, n + 1, ...: the samples
\* it ends with.
RECURSIVE FLACFill(_, _, _, _, _, _)
FLACFill(frames, n, channels, maxValue, sampleIndex, samples) ==
    IF n > Len(frames) THEN samples
    ELSE LET subframes == frames[n]
             filled ==
                 [k \in 1..Len(samples) |->
                     LET o == k - 1 - sampleIndex
                         i == (o % channels) + 1
                         j == (o \div channels) + 1
                     IN  IF o >= 0 /\ i <= Len(subframes) /\ j <= Len(subframes[i])
                         THEN Rat(subframes[i][j], maxValue)
                         ELSE samples[k]]
         IN  FLACFill(frames, n + 1, channels, maxValue,
                      sampleIndex + Len(subframes[1]) * channels, Slice(filled))

FLACLoad(stream, format) ==
    IF format # "flac" \/ stream.kind # "flac" THEN LoadFailed
    ELSE LET maxValue == Pow2(stream.bitDepth - 1) - 1
             numSamples == Len(stream.pcm) \div stream.channels
         IN  LoadReturned(AudioData(
                 FLACFill(FLACFrames(stream), 1, stream.channels, maxValue, 0,
                          [k \in 1..(numSamples * stream.channels) |-> Zero]),
                 stream.rate, stream.channels, Rat(numSamples, stream.rate)))

\* loader.Load(ctx, reader, format) for the loader of the given type.
Load(loader, stream, format) ==
    CASE loader = "WAVLoader" -> WAVLoad(stream, format)
      [] loader = "MP3Loader" -> MP3Load(stream, format)
      [] loader = "FLACLoader" -> FLACLoad(stream, format)

NewAudioUtils == [Loader |-> "WAVLoader", Processor |-> NewPCMProcessor]

\* The formats for which the AudioUtils u holds a loader.
LoaderFormats(u) ==
    {f \in AudioFormats :
        \E l \in {u.Loader} : /\ l = "WAVLoader" => f = "wav"
                              /\ l = "MP3Loader" => f = "mp3"
                              /\ l = "FLACLoader" => f = "flac"}

\* The format of a path with the extension ext, "" when there is none or it
\* is not supported.
GetAudioFormatFromPath(ext) == IF ext \in AudioFormats THEN ext ELSE ""

\* LoadAndPreprocess on a file that exists, with the extension file.ext.
LoadAndPreprocess(u, file, targetSampleRate, convertToMono) ==
    LET format == GetAudioFormatFromPath(file.ext)
        loaded == Load(u.Loader, file, format)
    IN  IF format = "" THEN LoadFailed
        ELSE IF loaded.err THEN LoadFailed
        ELSE LET r == Preprocess(loaded.out[1], targetSampleRate, convertToMono)
             IN  [out |-> r.out, err |-> r.err]

\* The crossings counted by the loop of CalculateZeroCrossingRate from
\* index i (from 0) on.
RECURSIVE CrossingsFrom(_, _, _)
CrossingsFrom(samples, i, crossings) ==
    IF i >= Len(samples) THEN crossings
    ELSE CrossingsFrom(samples, i + 1,
             IF \/ RGe(samples[i], Zero) /\ RLt(samples[i + 1], Zero)
                \/ RLt(samples[i], Zero) /\ RGe(samples[i + 1], Zero)
             THEN crossings + 1
             ELSE crossings)

\* A plausible slip: the crossings are divided by the number of samples.
CalculateZeroCrossingRateByLen(samples) ==
    IF Len(samples) <= 1 THEN Zero
    ELSE Rat(CrossingsFrom(samples, 1, 0), Len(samples))

CalculateZeroCrossingRate(samples) ==
    IF Len(samples) <= 1 THEN Zero
    ELSE Rat(CrossingsFrom(samples, 1, 0), Len(samples) - 1)

-----------------------------------------------------------------------------
(* The caller of the PCM processor: a loaded buffer and a sequence of at   *)
(* most MaxCalls calls, each applied to the buffer the previous one        *)
(* returned.                                                               *)

SampleVals == {Zero, Rat(1, 2000), Rat(-1, 2), Rat(1999, 2000)}

SampleSeqs == UNION {[1..n -> SampleVals] : n \in 0..MaxLen}

SampleRates == {2, 3}

ChannelCounts == {1, 2, 3}

NoCall == [name |-> "none"]

\* The analyzer and the extractor as constructed, nothing computed yet.
Idle ==
    /\ analyzer = NewSpectralAnalyzer
    /\ spectrogram = <<>>
    /\ extractor = NewPeakExtractor
    /\ peaks = <<>>
    /\ call = NoCall

\* The buffer a loader returns: Duration is frames / SampleRate.
Loaded(samples, rate, channels) ==
    AudioData(samples, rate, channels, Rat(Len(samples) \div channels, rate))

InitPCM ==
    /\ input \in {Loaded(sq, r, c) : sq \in SampleSeqs, r \in SampleRates,
                                     c \in ChannelCounts}
    /\ data = input
    /\ before = input
    /\ arg = input
    /\ ret = <<>>
    /\ err = FALSE
    /\ hist = <<>>
    /\ Idle

\* The caller takes the result r of a call on data.
Take(r, name, target, mono) ==
    /\ before' = data
    /\ arg' = r.in
    /\ ret' = r.out
    /\ err' = r.err
    /\ data' = IF r.err THEN r.in ELSE r.out[1]
    /\ hist' = Append(hist, [name |-> name, target |-> target, mono |-> mono,
                             err |-> r.err])
    /\ UNCHANGED <<input, spectralVars>>

CallConvertToMono ==
    /\ Len(hist) < MaxCalls
    /\ \E r \in {ConvertToMono(data)} : Take(r, "ConvertToMono", 0, FALSE)

CallNormalize ==
    /\ Len(hist) < MaxCalls
    /\ \E r \in {Normalize(data)} : Take(r, "Normalize", 0, FALSE)

CallResampleTo ==
    /\ Len(hist) < MaxCalls
    /\ \E t \in SampleRates :
           \E r \in {ResampleTo(data, t)} : Take(r, "ResampleTo", t, FALSE)

CallPreprocess ==
    /\ Len(hist) < MaxCalls
    /\ \E t \in SampleRates, m \in BOOLEAN :
           \E r \in {Preprocess(data, t, m)} : Take(r, "Preprocess", t, m)

NextPCM ==
    \/ CallConvertToMono
    \/ CallNormalize
    \/ CallResampleTo
    \/ CallPreprocess

SpecPCM == InitPCM /\ [][NextPCM]_vars

\* The last call made.
op == IF hist = <<>> THEN [name |-> "none", target |-> 0, mono |-> FALSE, err |-> FALSE]
      ELSE hist[Len(hist)]

-----------------------------------------------------------------------------
(* ResampleTo on test tones: up to MaxFrames frames of a period-3 wave, at *)
(* every pair of sample rates up to MaxRate.                               *)

Tone(frames, channels) ==
    [k \in 1..(frames * channels) |-> Rat((k % 3) - 1, 2)]

InitResample ==
    /\ input \in {Loaded(Tone(n, c), r, c) : n \in 0..MaxFrames, c \in {1, 2},
                                             r \in 1..MaxRate}
    /\ data = input
    /\ before = input
    /\ arg = input
    /\ ret = <<>>
    /\ err = FALSE
    /\ hist = <<>>
    /\ Idle

CallResampleTone ==
    /\ hist = <<>>
    /\ \E t \in 1..MaxRate :
           \E r \in {ResampleTo(data, t)} : Take(r, "ResampleTo", t, FALSE)

NextResample == CallResampleTone

SpecResample == InitResample /\ [][NextResample]_vars

-----------------------------------------------------------------------------
(* The spectral analyzer at work: an analyzer as constructed, with the     *)
(* fields the spectrogram command sets (WindowType, LogScaleBase,          *)
(* NormalizeSpec), computes spectrograms of one loaded buffer, call after  *)
(* call; its WindowSize, HopSize and SampleRate carry over between calls.  *)

MaxSamples == 3    \* longest buffer handed to ComputeSpectrogram

SpectrumVals == {Zero, RInt(-1)}

SpectrumSeqs == UNION {[1..n -> SpectrumVals] : n \in 0..MaxSamples}

\* The windowSize arguments: not provided (0), and sizes whose window and
\* transform are rational.
WindowSizes == {0, 1, 2, 3}

HopSizes == {0, 1, 2}

WindowTypes == {"hamming", "rectangular"}

LogScaleBases == {Zero, RInt(10)}

\* The analyzer as constructed, with the fields the caller sets.
Analyzers ==
    {[NewSpectralAnalyzer EXCEPT !.WindowType = w, !.LogScaleBase = b,
                                 !.NormalizeSpec = n] :
        w \in WindowTypes, b \in LogScaleBases, n \in BOOLEAN}

InitSpectrogram ==
    /\ input \in {Loaded(sq, 8, 1) : sq \in SpectrumSeqs}
                  \cup {Loaded(sq, 8, 2) : sq \in {<<>>} \cup [1..2 -> SpectrumVals]}
    /\ data = input
    /\ before = input
    /\ arg = input
    /\ ret = <<>>
    /\ err = FALSE
    /\ hist = <<>>
    /\ analyzer \in Analyzers
    /\ spectrogram = <<>>
    /\ extractor = NewPeakExtractor
    /\ peaks = <<>>
    /\ call = NoCall

CallComputeSpectrogram ==
    \E windowSize \in WindowSizes, hopSize \in HopSizes :
        \E r \in {ComputeSpectrogram(analyzer, data, windowSize, hopSize)} :
            /\ analyzer' = r.s
            /\ spectrogram' = r.out
            /\ err' = r.err
            /\ call' = [name |-> "ComputeSpectrogram", windowSize |-> windowSize,
                        hopSize |-> hopSize]
            /\ UNCHANGED <<input, data, before, arg, ret, hist, extractor, peaks>>

NextSpectrogram == CallComputeSpectrogram

SpecSpectrogram == InitSpectrogram /\ [][NextSpectrogram]_vars

-----------------------------------------------------------------------------
(* Two goroutines call ComputeSpectrogram on one analyzer, with the same   *)
(* mono buffer and different arguments.  The method has no lock: its reads *)
(* and writes of the analyzer's fields interleave with the other call's.   *)
(* The steps of a call are the stores of the window and hop size, the      *)
(* framing (with the store of the sample rate), each pass of the loop over *)
(* the frames, and the computation of the time and frequency points.  In   *)
(* this specification call holds the arguments and the position of each    *)
(* call, arg its local variables and ret what it returned; before is the   *)
(* analyzer as the calls found it.                                         *)

Goroutines == {1, 2}

\* The (windowSize, hopSize) arguments of the two calls: different pairs.
ArgumentPairs ==
    {pair \in ({1, 2, 3} \X {1, 2}) \X ({1, 2, 3} \X {1, 2}) :
        pair[1][1] < pair[2][1]
            \/ (pair[1][1] = pair[2][1] /\ pair[1][2] < pair[2][2])}

InitConcurrent ==
    /\ input \in {Loaded(sq, 8, 1) : sq \in SpectrumSeqs}
    /\ data = input
    /\ analyzer \in Analyzers
    /\ before = analyzer
    /\ arg = [c \in Goroutines |-> [frames |-> <<>>, numBins |-> 0, Data |-> <<>>]]
    /\ ret = [c \in Goroutines |-> <<>>]
    /\ err = FALSE
    /\ hist = <<>>
    /\ spectrogram = <<>>
    /\ extractor = NewPeakExtractor
    /\ peaks = <<>>
    /\ \E pair \in ArgumentPairs :
           call = [name |-> "concurrent",
                   windowSize |-> [c \in Goroutines |-> pair[c][1]],
                   hopSize |-> [c \in Goroutines |-> pair[c][2]],
                   pc |-> [c \in Goroutines |-> "store"]]

\* if windowSize > 0 { s.WindowSize = windowSize }; likewise the hop size.
StoreSizes(c) ==
    /\ call.name = "concurrent"
    /\ call.pc[c] = "store"
    /\ analyzer' = [analyzer EXCEPT
                       !.WindowSize = IF call.windowSize[c] > 0
                                      THEN call.windowSize[c] ELSE @,
                       !.HopSize = IF call.hopSize[c] > 0
                                   THEN call.hopSize[c] ELSE @]
    /\ call' = [call EXCEPT !.pc[c] = "frame"]
    /\ UNCHANGED <<input, data, before, arg, ret, err, hist, spectrogram, extractor, peaks>>

\* The mono test, the store of the sample rate and the framing with the
\* sizes the analyzer holds now; numBins is computed from the same field.
SegmentFrames(c) ==
    /\ call.name = "concurrent"
    /\ call.pc[c] = "frame"
    /\ IF NotMono(data)
       THEN /\ ret' = [ret EXCEPT ![c] = <<[out |-> <<>>, err |-> TRUE]>>]
            /\ call' = [call EXCEPT !.pc[c] = "done"]
            /\ UNCHANGED <<analyzer, arg>>
       ELSE \E seg \in {SegmentIntoFrames(
                           [NewPCMProcessor EXCEPT !.FrameSize = analyzer.WindowSize,
                                                   !.HopSize = analyzer.HopSize],
                           data)} :
               /\ analyzer' = [analyzer EXCEPT !.SampleRate = data.SampleRate]
               /\ IF seg.err
                  THEN /\ ret' = [ret EXCEPT ![c] = <<[out |-> <<>>, err |-> TRUE]>>]
                       /\ call' = [call EXCEPT !.pc[c] = "done"]
                       /\ UNCHANGED arg
                  ELSE /\ arg' = [arg EXCEPT ![c] =
                                     [frames |-> seg.frames,
                                      numBins |-> analyzer.WindowSize \div 2 + 1,
                                      Data |-> <<>>]]
                       /\ call' = [call EXCEPT !.pc[c] = "loop"]
                       /\ UNCHANGED ret
    /\ UNCHANGED <<input, data, before, err, hist, spectrogram, extractor, peaks>>

\* One pass of the loop over the frames, with the analyzer as it is now.
ProcessNextFrame(c) ==
    /\ call.name = "concurrent"
    /\ call.pc[c] = "loop"
    /\ Len(arg[c].Data) < Len(arg[c].frames)
    /\ arg' = [arg EXCEPT ![c].Data =
                   Append(@, ProcessFrame(analyzer, arg[c].frames[Len(@) + 1]))]
    /\ UNCHANGED <<input, data, before, ret, err, hist, analyzer, spectrogram,
                   extractor, peaks, call>>

\* The time and frequency points, from the fields as they are now, and
\* the return of the spectrogram.
ReturnSpectrogram(c) ==
    /\ call.name = "concurrent"
    /\ call.pc[c] = "loop"
    /\ Len(arg[c].Data) = Len(arg[c].frames)
    /\ ret' = [ret EXCEPT ![c] =
                   <<[out |-> <<[Data |-> arg[c].Data,
                                 FreqBins |-> arg[c].numBins,
                                 TimeBins |-> Len(arg[c].frames),
                                 TimePoints |->
                                     [i \in 1..Len(arg[c].frames) |->
                                         Rat((i - 1) * analyzer.HopSize,
                                             analyzer.SampleRate)],
                                 FreqPoints |->
                                     [i \in 1..arg[c].numBins |->
                                         Rat((i - 1) * analyzer.SampleRate,
                                             analyzer.WindowSize)]]>>,
                      err |-> FALSE]>>]
    /\ call' = [call EXCEPT !.pc[c] = "done"]
    /\ UNCHANGED <<input, data, before, arg, err, hist, analyzer, spectrogram,
                   extractor, peaks>>

NextConcurrent ==
    \/ \E c \in Goroutines : StoreSizes(c)
    \/ \E c \in Goroutines : SegmentFrames(c)
    \/ \E c \in Goroutines : ProcessNextFrame(c)
    \/ \E c \in Goroutines : ReturnSpectrogram(c)

SpecConcurrent == InitConcurrent /\ [][NextConcurrent]_vars

-----------------------------------------------------------------------------
(* The peak extractor at work: a spectrogram of at most MaxCells values,   *)
(* with the time and frequency points of a 4000 Hz buffer analysed with a  *)
(* hop of one sample, and an extractor with its fields set by the caller.  *)

MaxCells == 6      \* most values (frames times bins) of a spectrogram

Amplitudes == {RInt(-1), Rat(1, 2), One}

\* The spectrograms of timeBins frames of freqBins bins each.
Spectrograms(timeBins, freqBins) ==
    {[Data |-> rows, FreqBins |-> freqBins, TimeBins |-> timeBins,
      TimePoints |-> [t \in 1..timeBins |-> Rat(t - 1, 4000)],
      FreqPoints |-> [f \in 1..freqBins |->
                         Rat((f - 1) * 4000, 2 * (freqBins - 1) + 1)]] :
        rows \in [1..timeBins -> [1..freqBins -> Amplitudes]]}

\* The numbers of frames and of bins: no frames, frames of no bins, and
\* every shape of at most MaxCells values.
Shapes ==
    {shape \in (0..MaxCells) \X (0..MaxCells) :
        shape[1] * shape[2] <= MaxCells /\ shape[1] + shape[2] > 0}

Extractors ==
    {[NewPeakExtractor EXCEPT !.NeighborhoodSize = n,
                              !.AbsoluteThreshold = th[1],
                              !.RelativeThreshold = th[2],
                              !.MaxPeaksPerFrame = k,
                              !.MinFrequency = band[1],
                              !.MaxFrequency = band[2]] :
        n \in {0, 1},
        th \in {<<Rat(1, 100), Rat(1, 10)>>, <<Rat(3, 4), Rat(1, 10)>>},
        k \in {1, 5},
        band \in {<<RInt(100), RInt(4000)>>, <<RInt(5000), RInt(4000)>>,
                  <<Zero, RInt(1500)>>}}

InitPeaks ==
    /\ input = Loaded(<<>>, 4000, 1)
    /\ data = input
    /\ before = input
    /\ arg = input
    /\ ret = <<>>
    /\ err = FALSE
    /\ hist = <<>>
    /\ analyzer = NewSpectralAnalyzer
    /\ spectrogram \in {<<>>} \cup
           {<<sg>> : sg \in UNION {Spectrograms(shape[1], shape[2]) :
                                      shape \in Shapes}}
    /\ extractor \in Extractors
    /\ peaks = <<>>
    /\ call = NoCall

CallExtractPeaks ==
    /\ call.name # "ExtractPeaks"
    /\ \E r \in ExtractPeaks(extractor, spectrogram) :
        /\ peaks' = r.out
        /\ err' = r.err
        /\ call' = [name |-> "ExtractPeaks"]
        /\ UNCHANGED <<input, data, before, arg, ret, hist, analyzer, spectrogram,
                       extractor>>

NextPeaks == CallExtractPeaks

SpecPeaks == InitPeaks /\ [][NextPeaks]_vars

-----------------------------------------------------------------------------
(* FilterPeaks on a list of at most MaxPeaks peaks.  The options are a     *)
(* map[string]interface{}: a key is absent, or holds a value of some type; *)
(* FilterPeaks reads each with a type assertion to float64.  The result of *)
(* a call is filtered again with the same options.  In this specification  *)
(* arg holds the options, before the peaks passed in and peaks the result. *)

MaxPeaks == 2      \* most peaks passed to FilterPeaks

\* options[key].(float64): the value and whether the assertion holds.
Float64Option(options, key) ==
    IF key \in DOMAIN options /\ options[key].type = "float64"
    THEN [val |-> options[key].val, has |-> TRUE]
    ELSE [val |-> Zero, has |-> FALSE]

FilterPeaks(pks, options) ==
    LET minFreq == Float64Option(options, "min_frequency")
        maxFreq == Float64Option(options, "max_frequency")
        ampThreshold == Float64Option(options, "amplitude_threshold")
        minTime == Float64Option(options, "min_time")
        maxTime == Float64Option(options, "max_time")
        Kept(peak) ==
            /\ ~(minFreq.has /\ RLt(peak.Frequency, minFreq.val))
            /\ ~(maxFreq.has /\ RGt(peak.Frequency, maxFreq.val))
            /\ ~(ampThreshold.has /\ RLt(peak.Amplitude, ampThreshold.val))
            /\ ~(minTime.has /\ RLt(peak.Time, minTime.val))
            /\ ~(maxTime.has /\ RGt(peak.Time, maxTime.val))
    IN  IF Len(pks) = 0 THEN pks ELSE SelectSeq(pks, Kept)

\* The option maps: each key absent, or present as a float64 or as an int
\* (as in options["min_frequency"] = 1000).
OptionMaps ==
    LET value == [min_frequency |-> RInt(1000), max_frequency |-> RInt(1000),
                  amplitude_threshold |-> One, min_time |-> One,
                  max_time |-> Zero]
    IN  UNION {{[key \in keys |-> [type |-> types[key], val |-> value[key]]] :
                   types \in [keys -> {"float64", "int"}]} :
                  keys \in SUBSET DOMAIN value}

\* The lists of peaks: two frames a second apart, bins at 500, 1000 and
\* 1500 Hz, amplitudes 1/2 and 1.
PeakLists ==
    LET points == {[TimeIndex |-> t, FreqIndex |-> f, Time |-> RInt(t),
                    Frequency |-> RInt(500 * f), Amplitude |-> a,
                    IsLocalMaxima |-> TRUE] :
                      t \in {0, 1}, f \in {1, 2, 3}, a \in {Rat(1, 2), One}}
    IN  UNION {[1..n -> points] : n \in 0..MaxPeaks}

InitFilter ==
    /\ input = Loaded(<<>>, 4000, 1)
    /\ data = input
    /\ before \in PeakLists
    /\ arg \in OptionMaps
    /\ ret = <<>>
    /\ err = FALSE
    /\ hist = <<>>
    /\ analyzer = NewSpectralAnalyzer
    /\ spectrogram = <<>>
    /\ extractor = NewPeakExtractor
    /\ peaks = before
    /\ call = [name |-> "none", calls |-> 0]

\* The peaks the caller holds are filtered with the options.
CallFilterPeaks ==
    /\ call.name \in {"none", "FilterPeaks"}
    /\ "calls" \in DOMAIN call
    /\ call.calls < MaxCalls
    /\ before' = peaks
    /\ peaks' = FilterPeaks(peaks, arg)
    /\ call' = [name |-> "FilterPeaks", calls |-> call.calls + 1]
    /\ UNCHANGED <<input, data, arg, ret, err, hist, analyzer, spectrogram, extractor>>

NextFilter == CallFilterPeaks

SpecFilter == InitFilter /\ [][NextFilter]_vars

-----------------------------------------------------------------------------
(* Fingerprinting a buffer: the spectrogram of a mono buffer at 4000 Hz is *)
(* computed once, as the spectrogram command does, and its peaks are       *)
(* extracted with the extractor as constructed.                            *)

InitFingerprint ==
    /\ input \in {Loaded(sq, 4000, 1) : sq \in SpectrumSeqs}
    /\ data = input
    /\ before = input
    /\ arg = input
    /\ ret = <<>>
    /\ err = FALSE
    /\ hist = <<>>
    /\ analyzer \in Analyzers
    /\ spectrogram = <<>>
    /\ extractor = NewPeakExtractor
    /\ peaks = <<>>
    /\ call = NoCall

\* The one ComputeSpectrogram call of the command.
CallSpectrogramOnce ==
    /\ call = NoCall
    /\ CallComputeSpectrogram

NextFingerprint ==
    \/ CallSpectrogramOnce
    \/ CallExtractPeaks

SpecFingerprint == InitFingerprint /\ [][NextFingerprint]_vars

-----------------------------------------------------------------------------
(* Loading: a file of one of the three formats, or of another, holding at  *)
(* most MaxStreamFrames frames of samples at the ends and in the middle of *)
(* the range of its bit depth, is loaded by each loader and by AudioUtils.  *)

MaxStreamFrames == 1    \* most frames of a file

BitDepths == {8, 16}

\* The least, the greatest and two inner values of b-bit samples.
SampleInts(b) == {-Pow2(b - 1), -1, 0, Pow2(b - 1) - 1}

\* The files with the extension ext: their content is of the kind the
\* extension names (mp3 decodes to 16-bit stereo).
Files(ext) ==
    {[ext |-> ext, kind |-> ext, bitDepth |-> b, rate |-> 2, channels |-> c,
      pcm |-> pcm] :
        b \in IF ext = "mp3" THEN {16} ELSE BitDepths,
        c \in IF ext = "mp3" THEN {2} ELSE {1, 2},
        pcm \in UNION {[1..n -> {-32768, -128, -1, 0, 127, 32767}] :
                          n \in 0..(2 * MaxStreamFrames)}}

InitLoad ==
    /\ input \in {f \in UNION {Files(ext) : ext \in AudioFormats \cup {"ogg"}} :
                     /\ Len(f.pcm) % f.channels = 0
                     /\ Len(f.pcm) \div f.channels <= MaxStreamFrames
                     /\ \A i \in DOMAIN f.pcm : f.pcm[i] \in SampleInts(f.bitDepth)}
    /\ data = input
    /\ before = input
    /\ arg = input
    /\ ret = <<>>
    /\ err = FALSE
    /\ hist = <<>>
    /\ Idle

CallLoad ==
    /\ call = NoCall
    /\ \E loader \in {"WAVLoader", "MP3Loader", "FLACLoader"}, format \in AudioFormats :
           \E r \in {Load(loader, input, format)} :
               /\ ret' = r.out
               /\ err' = r.err
               /\ call' = [name |-> "Load", loader |-> loader, format |-> format]
               /\ UNCHANGED <<input, data, before, arg, hist, analyzer, spectrogram,
                              extractor, peaks>>

CallLoadAndPreprocess ==
    /\ call = NoCall
    /\ \E t \in SampleRates, m \in BOOLEAN :
           \E r \in {LoadAndPreprocess(NewAudioUtils, input, t, m)} :
               /\ ret' = r.out
               /\ err' = r.err
               /\ call' = [name |-> "LoadAndPreprocess", target |-> t, mono |-> m]
               /\ UNCHANGED <<input, data, before, arg, hist, analyzer, spectrogram,
                              extractor, peaks>>

NextLoad ==
    \/ CallLoad
    \/ CallLoadAndPreprocess

SpecLoad == InitLoad /\ [][NextLoad]_vars

-----------------------------------------------------------------------------
(* The statistics of a loaded buffer of at most MaxStatLen samples.        *)

MaxStatLen == 5    \* longest buffer handed to CalculateZeroCrossingRate

StatSeqs == UNION {[1..n -> SampleVals] : n \in 0..MaxStatLen}

InitStats ==
    /\ input \in {Loaded(sq, 2, 1) : sq \in StatSeqs}
    /\ data = input
    /\ before = input
    /\ arg = input
    /\ ret = <<>>
    /\ err = FALSE
    /\ hist = <<>>
    /\ Idle

CallCalculateZeroCrossingRate ==
    /\ call = NoCall
    /\ ret' = <<CalculateZeroCrossingRate(data.Samples)>>
    /\ call' = [name |-> "CalculateZeroCrossingRate"]
    /\ UNCHANGED <<input, data, before, arg, err, hist, analyzer, spectrogram,
                   extractor, peaks>>

NextStats == CallCalculateZeroCrossingRate

SpecStats == InitStats /\ [][NextStats]_vars

-----------------------------------------------------------------------------
(* The command-line programs spectrogram and audioinfo.  A run is the      *)
(* command line and what the program finds: whether a file argument was    *)
(* given, whether the file exists, the file, the flags, and whether the    *)
(* output directory and the image can be written.  A program runs from     *)
(* start to exit in one step; it returns [code, failed], the exit code and *)
(* the step that failed ("none" when every step succeeded).                *)

Exit(code, failed) == [code |-> code, failed |-> failed]

\* SaveSpectrogramImage: fails on a spectrogram without data and when the
\* file cannot be written.
SaveSpectrogramImage(sgp, writable) ==
    IF sgp = <<>> \/ Len(sgp[1].Data) = 0 \/ Len(sgp[1].Data[1]) = 0 THEN FALSE
    ELSE writable

\* main of the spectrogram command.
SpectrogramMain(run) ==
    IF run.nargs < 1 THEN Exit(1, "usage")
    ELSE IF ~run.exists THEN Exit(1, "stat")
    ELSE CHOOSE exit \in
             {IF loaded.err THEN Exit(1, "load")
              ELSE CHOOSE code \in
                       {IF r.err THEN Exit(1, "spectrogram")
                        ELSE IF run.output = "uncreatable" THEN Exit(1, "mkdir")
                        ELSE IF ~SaveSpectrogramImage(r.out, run.writable)
                             THEN Exit(1, "save")
                        ELSE Exit(0, "none") :
                           r \in {ComputeSpectrogram(
                                      [NewSpectralAnalyzer EXCEPT
                                          !.WindowSize = run.window,
                                          !.HopSize = run.hop,
                                          !.WindowType = run.windowType,
                                          !.LogScaleBase =
                                              IF run.log THEN RInt(10) ELSE Zero,
                                          !.NormalizeSpec = run.normalize],
                                      loaded.out[1], run.window, run.hop)}} : TRUE :
                 loaded \in {LoadAndPreprocess(NewAudioUtils, run.file,
                                               run.samplerate, run.mono)}} : TRUE

\* main of the audioinfo command.
AudioinfoMain(run) ==
    IF run.nargs < 1 THEN Exit(1, "usage")
    ELSE IF ~run.exists THEN Exit(1, "stat")
    ELSE CHOOSE exit \in
             {IF loaded.err THEN Exit(1, "load")
              ELSE CHOOSE code \in
                       {IF r.err THEN Exit(1, "spectrogram") ELSE Exit(0, "none") :
                           r \in {ComputeSpectrogram(NewSpectralAnalyzer,
                                                     loaded.out[1], 1024, 512)}} : TRUE :
                 loaded \in {LoadAndPreprocess(NewAudioUtils, run.file,
                                               run.samplerate, run.mono)}} : TRUE

\* The files of the runs: wav and mp3 files of one frame, and an ogg file.
RunFiles ==
    {f \in Files("wav") \cup Files("mp3") \cup Files("ogg") :
        /\ f.bitDepth = 16
        /\ Len(f.pcm) = f.channels
        /\ \A i \in DOMAIN f.pcm : f.pcm[i] \in {-32768, 0}}

Runs ==
    {[program |-> pr, nargs |-> n, exists |-> ex, file |-> f, samplerate |-> 2,
      mono |-> mo, window |-> w, hop |-> 1, windowType |-> "rectangular",
      log |-> lg, normalize |-> TRUE, output |-> o, writable |-> wr] :
        pr \in {"spectrogram", "audioinfo"}, n \in {0, 1}, ex \in BOOLEAN,
        f \in RunFiles, mo \in BOOLEAN, w \in {1, 2}, lg \in BOOLEAN,
        o \in {"exists", "uncreatable"}, wr \in BOOLEAN}

InitMain ==
    /\ input \in {run \in Runs :
                     /\ run.nargs = 0 => ~run.exists
                     /\ run.program = "audioinfo" =>
                            (run.window = 1 /\ run.log /\ run.output = "exists"
                             /\ run.writable)}
    /\ data = input
    /\ before = input
    /\ arg = input
    /\ ret = <<>>
    /\ err = FALSE
    /\ hist = <<>>
    /\ Idle

\* The process runs and exits with r.code.
Exits(r) ==
    /\ ret' = <<r.code>>
    /\ err' = (r.code # 0)
    /\ call' = [name |-> "main", failed |-> r.failed]
    /\ UNCHANGED <<input, data, before, arg, hist, analyzer, spectrogram,
                   extractor, peaks>>

RunSpectrogram ==
    /\ call = NoCall
    /\ input.program = "spectrogram"
    /\ \E r \in {SpectrogramMain(input)} : Exits(r)

RunAudioinfo ==
    /\ call = NoCall
    /\ input.program = "audioinfo"
    /\ \E r \in {AudioinfoMain(input)} : Exits(r)

NextMain ==
    \/ RunSpectrogram
    \/ RunAudioinfo

SpecMain == InitMain /\ [][NextMain]_vars

-----------------------------------------------------------------------------
(* The vector index (VectorDB) under concurrent use.  The repository only  *)
(* declares the interface; the index is modelled from the specification's  *)
(* concurrency model: search takes a shared lock on the index, add an      *)
(* exclusive one, a waiting writer blocks new readers, and the metadata    *)
(* table is in the lock domain of the index.  One Add of a track of up to  *)
(* MaxVectors vectors runs against the searches of Searchers; a search     *)
(* reads the track's vectors, then its metadata (Get).  In this            *)
(* specification data is the index, call the position of every request,    *)
(* arg what each search has read so far and ret what it returned.          *)

MaxVectors == 2    \* most vectors of the added track

Searchers == {1, 2}

EmptyIndex ==
    [vectors |-> {}, metadata |-> {}, writer |-> FALSE, waiting |-> FALSE,
     readers |-> 0]

NothingRead == [vectors |-> {}, metadata |-> FALSE]

InitIndex ==
    /\ input \in {[ID |-> "T", vectors |-> 1..n] : n \in 1..MaxVectors}
    /\ data = EmptyIndex
    /\ before = EmptyIndex
    /\ arg = [s \in Searchers |-> NothingRead]
    /\ ret = [s \in Searchers |-> <<>>]
    /\ err = FALSE
    /\ hist = <<>>
    /\ analyzer = NewSpectralAnalyzer
    /\ spectrogram = <<>>
    /\ extractor = NewPeakExtractor
    /\ peaks = <<>>
    /\ call = [name |-> "index", add |-> "idle",
               search |-> [s \in Searchers |-> "idle"]]

IndexFrame == UNCHANGED <<input, before, err, hist, analyzer, spectrogram, extractor, peaks>>

\* Add is called: the writer waits for the exclusive lock.
AddRequest ==
    /\ call.name = "index"
    /\ call.add = "idle"
    /\ call' = [call EXCEPT !.add = "waiting"]
    /\ data' = [data EXCEPT !.waiting = TRUE]
    /\ UNCHANGED <<arg, ret>>
    /\ IndexFrame

\* A slip: the writer takes the lock while searches are in flight.
AddLockAtOnce ==
    /\ call.name = "index"
    /\ call.add = "waiting"
    /\ call' = [call EXCEPT !.add = "inserting"]
    /\ data' = [data EXCEPT !.writer = TRUE, !.waiting = FALSE]
    /\ UNCHANGED <<arg, ret>>
    /\ IndexFrame

\* The writer proceeds when the searches in flight have completed.
AddLock ==
    /\ call.name = "index"
    /\ call.add = "waiting"
    /\ data.readers = 0
    /\ ~data.writer
    /\ call' = [call EXCEPT !.add = "inserting"]
    /\ data' = [data EXCEPT !.writer = TRUE, !.waiting = FALSE]
    /\ UNCHANGED <<arg, ret>>
    /\ IndexFrame

\* The next vector of the track is inserted.
AddInsert ==
    /\ call.name = "index"
    /\ call.add = "inserting"
    /\ \E v \in input.vectors :
           /\ <<input.ID, v>> \notin data.vectors
           /\ \A u \in input.vectors : u < v => <<input.ID, u>> \in data.vectors
           /\ data' = [data EXCEPT !.vectors = @ \cup {<<input.ID, v>>}]
    /\ UNCHANGED <<call, arg, ret>>
    /\ IndexFrame

\* All vectors are in: the metadata is entered.
AddMetadata ==
    /\ call.name = "index"
    /\ call.add = "inserting"
    /\ \A v \in input.vectors : <<input.ID, v>> \in data.vectors
    /\ data' = [data EXCEPT !.metadata = @ \cup {input.ID}]
    /\ call' = [call EXCEPT !.add = "unlocking"]
    /\ UNCHANGED <<arg, ret>>
    /\ IndexFrame

AddUnlock ==
    /\ call.name = "index"
    /\ call.add = "unlocking"
    /\ data' = [data EXCEPT !.writer = FALSE]
    /\ call' = [call EXCEPT !.add = "done"]
    /\ UNCHANGED <<arg, ret>>
    /\ IndexFrame

\* Search takes the shared lock; a writer that holds or awaits the lock
\* blocks it.
SearchLock(s) ==
    /\ call.name = "index"
    /\ call.search[s] = "idle"
    /\ ~data.writer
    /\ ~data.waiting
    /\ data' = [data EXCEPT !.readers = @ + 1]
    /\ call' = [call EXCEPT !.search[s] = "vectors"]
    /\ UNCHANGED <<arg, ret>>
    /\ IndexFrame

\* The search reads the vectors of the track that are in the index.
SearchVectors(s) ==
    /\ call.name = "index"
    /\ call.search[s] = "vectors"
    /\ arg' = [arg EXCEPT ![s].vectors =
                   {v \in input.vectors : <<input.ID, v>> \in data.vectors}]
    /\ call' = [call EXCEPT !.search[s] = "metadata"]
    /\ UNCHANGED <<data, ret>>
    /\ IndexFrame

\* The metadata of the track is looked up.
SearchMetadata(s) ==
    /\ call.name = "index"
    /\ call.search[s] = "metadata"
    /\ arg' = [arg EXCEPT ![s].metadata = input.ID \in data.metadata]
    /\ call' = [call EXCEPT !.search[s] = "unlocking"]
    /\ UNCHANGED <<data, ret>>
    /\ IndexFrame

\* The search releases the lock and returns what it read.
SearchUnlock(s) ==
    /\ call.name = "index"
    /\ call.search[s] = "unlocking"
    /\ data' = [data EXCEPT !.readers = @ - 1]
    /\ ret' = [ret EXCEPT ![s] = <<arg[s]>>]
    /\ call' = [call EXCEPT !.search[s] = "done"]
    /\ UNCHANGED arg
    /\ IndexFrame

NextIndex ==
    \/ AddRequest
    \/ AddLock
    \/ AddInsert
    \/ AddMetadata
    \/ AddUnlock
    \/ \E s \in Searchers : SearchLock(s)
    \/ \E s \in Searchers : SearchVectors(s)
    \/ \E s \in Searchers : SearchMetadata(s)
    \/ \E s \in Searchers : SearchUnlock(s)

SpecIndex == InitIndex /\ [][NextIndex]_vars

-----------------------------------------------------------------------------
(* Claims about the spectral analyzer.                                     *)

\* Whether the last call returned a spectrogram of the dimensions that the
\* window size w and the hop h give for the buffer.
HasDims(w, h) ==
    /\ ~err
    /\ Len(spectrogram) = 1
    /\ spectrogram[1].TimeBins = 1 + (Len(data.Samples) - w) \div h
    /\ spectrogram[1].FreqBins = w \div 2 + 1
    /\ Len(spectrogram[1].Data) = spectrogram[1].TimeBins
    /\ Len(spectrogram[1].TimePoints) = spectrogram[1].TimeBins
    /\ Len(spectrogram[1].FreqPoints) = spectrogram[1].FreqBins
    /\ \A t \in DOMAIN spectrogram[1].Data :
           Len(spectrogram[1].Data[t]) = spectrogram[1].FreqBins

\* C1, as claimed: for every mono buffer of N samples with N >= W and every
\* hop H >= 1, ComputeSpectrogram(buffer, W, H) returns a spectrogram with
\* TimeBins = floor(1 + (N - W)/H), FreqBins = W/2 + 1, len(Data) =
\* len(TimePoints) = TimeBins, len(FreqPoints) = FreqBins and rows of length
\* FreqBins.
C1_AsClaimed ==
    (/\ call.name = "ComputeSpectrogram"
     /\ data.Channels = 1
     /\ Len(data.Samples) >= call.windowSize
     /\ call.hopSize >= 1)
        => HasDims(call.windowSize, call.hopSize)

\* C1, amended: the same for every window size W >= 1 (a windowSize argument
\* that is not positive leaves the analyzer's WindowSize in force).
C1_SpectrogramDims ==
    (/\ call.name = "ComputeSpectrogram"
     /\ data.Channels = 1
     /\ call.windowSize >= 1
     /\ Len(data.Samples) >= call.windowSize
     /\ call.hopSize >= 1)
        => HasDims(call.windowSize, call.hopSize)

\* Three samples were analysed with a window of 2 and a hop of 1, in two
\* frames of two bins.
C1_Witness ==
    /\ call.name = "ComputeSpectrogram"
    /\ data.Channels = 1
    /\ Len(data.Samples) = 3
    /\ call.windowSize = 2
    /\ call.hopSize = 1
    /\ ~err
    /\ spectrogram[1].TimeBins = 2
    /\ spectrogram[1].FreqBins = 2

\* C2, as claimed: every value S[t][f] of every spectrogram returned by
\* ComputeSpectrogram is non-negative, for every mono input and every
\* analyzer configuration, the default one (log scaling to base 10, then
\* per-frame normalization) included.
C2_NonNegative ==
    (call.name = "ComputeSpectrogram" /\ ~err) =>
        \A t \in DOMAIN spectrogram[1].Data :
            \A f \in DOMAIN spectrogram[1].Data[t] :
                RGe(spectrogram[1].Data[t][f], Zero)

\* The processor ComputeSpectrogram frames the buffer with, as the last call
\* configured it.
FramingProcessor ==
    [NewPCMProcessor EXCEPT !.FrameSize = analyzer.WindowSize,
                            !.HopSize = analyzer.HopSize]

\* Whether SegmentIntoFrames, called by the last ComputeSpectrogram, fails
\* exactly when the buffer has fewer than W samples, W the frame size, and
\* otherwise returns at least one frame.
FramesIffLongEnough ==
    LET seg == SegmentIntoFrames(FramingProcessor, data)
        N == Len(data.Samples)
        W == FramingProcessor.FrameSize
    IN  /\ seg.err <=> N < W
        /\ seg.err => seg.frames = <<>>
        /\ (N >= W /\ FramingProcessor.HopSize >= 1) =>
               (~seg.err /\ Len(seg.frames) >= 1)

\* Whether the last ComputeSpectrogram failed, without a spectrogram, exactly
\* when the buffer has fewer samples than the window, and otherwise returned
\* a spectrogram of at least one frame.
SpectrogramIffLongEnough ==
    LET N == Len(data.Samples)
        W == analyzer.WindowSize
    IN  /\ err <=> N < W
        /\ err => spectrogram = <<>>
        /\ (N >= W /\ analyzer.HopSize >= 1) =>
               (/\ ~err
                /\ Len(spectrogram) = 1
                /\ spectrogram[1].TimeBins >= 1
                /\ Len(spectrogram[1].Data) >= 1)

\* C11, as claimed: SegmentIntoFrames, and therefore ComputeSpectrogram,
\* returns an error and no frames/spectrogram exactly when the number of
\* samples N is less than the window (frame) size W; for N >= W and
\* hop >= 1 it succeeds with at least one frame.
C11_AsClaimed ==
    call.name = "ComputeSpectrogram" =>
        (FramesIffLongEnough /\ SpectrogramIffLongEnough)

\* C11, amended: the same, with ComputeSpectrogram given a mono buffer (a
\* buffer of another channel count is rejected whatever its length).
C11_TooShort ==
    call.name = "ComputeSpectrogram" =>
        /\ FramesIffLongEnough
        /\ data.Channels = 1 => SpectrogramIffLongEnough

\* Two mono samples were analysed with a window of three: an error; or with a
\* window of two: one frame.
C11_Witness ==
    /\ call.name = "ComputeSpectrogram"
    /\ data.Channels = 1
    /\ Len(data.Samples) = 2
    /\ \/ analyzer.WindowSize = 3 /\ err /\ spectrogram = <<>>
       \/ analyzer.WindowSize = 2 /\ ~err /\ spectrogram[1].TimeBins = 1

\* C12: ComputeSpectrogram returns an error and a nil spectrogram whenever
\* the input buffer's channel count is not 1, regardless of its length,
\* window size or hop size.
C12_RequiresMono ==
    (call.name = "ComputeSpectrogram" /\ data.Channels # 1) =>
        (err /\ spectrogram = <<>>)

\* A stereo buffer of two samples, long enough for the window of one sample
\* it was analysed with, was rejected.
C12_Witness ==
    /\ call.name = "ComputeSpectrogram"
    /\ data.Channels = 2
    /\ Len(data.Samples) = 2
    /\ analyzer.WindowSize = 1
    /\ err
    /\ spectrogram = <<>>

\* C13, as claimed: a call to ComputeSpectrogram leaves the analyzer's
\* configuration (WindowSize, HopSize, SampleRate, WindowType, LogScaleBase,
\* NormalizeSpec) equal to its values before the call, whether the call
\* succeeds or returns an error.
C13_ConfigUnchanged ==
    [][CallComputeSpectrogram => analyzer' = analyzer]_vars

\* The largest value of a spectrum that has one.
MaxOfSpectrum(spectrum) ==
    CHOOSE m \in {spectrum[i] : i \in DOMAIN spectrum} :
        \A i \in DOMAIN spectrum : RLe(spectrum[i], m)

\* Frame t (from 1) of the last spectrogram as it was before normalization.
Unnormalized(t) ==
    ProcessFrame([analyzer EXCEPT !.NormalizeSpec = FALSE],
                 SegmentIntoFrames(FramingProcessor, data).frames[t])

\* C15, as claimed: with per-frame normalization enabled (NormalizeSpec =
\* true), every frame of the spectrogram returned by ComputeSpectrogram has a
\* maximum value of exactly 1.0 and no value above 1.0; NormalizeSpectrum
\* maps a spectrum to spectrum[i] / max(spectrum).
C15_NormalizedPeak ==
    (call.name = "ComputeSpectrogram" /\ ~err /\ analyzer.NormalizeSpec) =>
        \A t \in DOMAIN spectrogram[1].Data :
            LET row == spectrogram[1].Data[t]
                raw == Unnormalized(t)
            IN  /\ \E f \in DOMAIN row : row[f] = One
                /\ \A f \in DOMAIN row : RLe(row[f], One)
                /\ \A f \in DOMAIN row :
                       row[f] = RDiv(raw[f], MaxOfSpectrum(raw))

\* C26, as claimed: on an analyzer created by NewSpectralAnalyzer, a call
\* ComputeSpectrogram(data, windowSize, hopSize) with windowSize <= 0 and
\* hopSize <= 0 uses W = 1024 and H = 512, whatever earlier calls were made
\* on the analyzer: it frames with them, so a mono buffer of fewer than
\* 1024 samples is an error and a spectrogram has 513 bins.
C26_DefaultsUsed ==
    (/\ call.name = "ComputeSpectrogram"
     /\ call.windowSize <= 0
     /\ call.hopSize <= 0) =>
        /\ analyzer.WindowSize = 1024
        /\ analyzer.HopSize = 512
        /\ (data.Channels = 1 /\ Len(data.Samples) < 1024) => err
        /\ ~err => spectrogram[1].FreqBins = 513

\* C25, as claimed: two concurrent ComputeSpectrogram calls with different
\* (windowSize, hopSize) arguments on the same analyzer each return the
\* spectrogram their own arguments determine (the one the call returns when
\* it runs alone), under every interleaving.
C25_OwnSpectrogram ==
    call.name = "concurrent" =>
        \A c \in Goroutines :
            ret[c] # <<>> =>
                LET alone == ComputeSpectrogram(before, data, call.windowSize[c],
                                                call.hopSize[c])
                IN  /\ ret[c][1].err = alone.err
                    /\ ret[c][1].out = alone.out

\* C27: for N >= W and H >= 1, SegmentIntoFrames returns frames of which
\* frame i (from 0) has exactly W entries, equal to samples[i*H .. i*H+W-1]:
\* no frame is zero-padded, and the samples after index (numFrames-1)*H+W-1
\* appear in no frame.  Stated of the framing of the last successful
\* ComputeSpectrogram call.
C27_FramesExact ==
    LET seg == SegmentIntoFrames(FramingProcessor, data)
        N == Len(data.Samples)
        W == FramingProcessor.FrameSize
        H == FramingProcessor.HopSize
    IN  (call.name = "ComputeSpectrogram" /\ ~err /\ N >= W /\ H >= 1) =>
            /\ ~seg.err
            /\ Len(seg.frames) = spectrogram[1].TimeBins
            /\ \A i \in 1..Len(seg.frames) :
                   /\ DOMAIN seg.frames[i] = 1..W
                   /\ (i - 1) * H + W <= N
                   /\ \A j \in 1..W :
                          seg.frames[i][j] = data.Samples[(i - 1) * H + j]

\* A buffer of three samples framed with W = 2 and H = 2: one frame, of the
\* first two samples; the third sample, which is not zero, is in no frame.
C27_Witness ==
    /\ call.name = "ComputeSpectrogram"
    /\ ~err
    /\ analyzer.WindowSize = 2
    /\ analyzer.HopSize = 2
    /\ data.Samples = <<Zero, RInt(-1), RInt(-1)>>
    /\ spectrogram[1].TimeBins = 1
    /\ SegmentIntoFrames(FramingProcessor, data).frames = <<<<Zero, RInt(-1)>>>>

\* C18, as claimed: ComputeSpectrogram (and the framing it uses) rejects a
\* bad window/hop configuration with an error instead of producing a
\* spectrogram: a call whose hop size is greater than its window size
\* returns an error and no spectrogram.
C18_HopAboveWindow ==
    (/\ call.name = "ComputeSpectrogram"
     /\ call.windowSize >= 1
     /\ call.hopSize > call.windowSize) =>
        (err /\ spectrogram = <<>>)

-----------------------------------------------------------------------------
(* Claims about the peak extractor.                                        *)

\* The largest value of the spectrogram sg.
MaxOf(sg) ==
    LET values == {sg.Data[t][f] : t \in 1..sg.TimeBins, f \in 1..sg.FreqBins}
    IN  CHOOSE m \in values : \A v \in values : RLe(v, m)

RMax(a, b) == IF RGt(a, b) THEN a ELSE b

Extracted == call.name = "ExtractPeaks" /\ ~err

C4_IndicesAndBand ==
    Extracted =>
        \A i \in DOMAIN peaks :
            /\ 0 <= peaks[i].TimeIndex
            /\ peaks[i].TimeIndex < spectrogram[1].TimeBins
            /\ 0 <= peaks[i].FreqIndex
            /\ peaks[i].FreqIndex < spectrogram[1].FreqBins
            /\ RLe(extractor.MinFrequency, peaks[i].Frequency)
            /\ RLe(peaks[i].Frequency, extractor.MaxFrequency)

\* C23: in ExtractPeaks the scanned band [f_lo, f_hi] is f_lo = the first
\* bin whose frequency is >= MinFrequency and f_hi = the last bin whose
\* frequency is <= MaxFrequency, for every ascending FreqPoints and every
\* MinFrequency/MaxFrequency setting, bin 0 already at or above MinFrequency
\* included.
C23_BandIndices ==
    Extracted =>
        LET sg == spectrogram[1]
            band == FreqBand(extractor, sg)
            above == {f \in 0..(sg.FreqBins - 1) :
                         RGe(sg.FreqPoints[f + 1], extractor.MinFrequency)}
            below == {f \in 0..(sg.FreqBins - 1) :
                         RLe(sg.FreqPoints[f + 1], extractor.MaxFrequency)}
        IN  /\ above # {} => \A f \in above : band.min <= f
            /\ above # {} => band.min \in above
            /\ below # {} => \A f \in below : f <= band.max
            /\ below # {} => band.max \in below

\* Whether a landmark is returned for bin f of frame t.
Declared(t, f) ==
    \E i \in DOMAIN peaks : peaks[i].TimeIndex = t /\ peaks[i].FreqIndex = f

\* Bin f of frame t is in the scanned band, at or above the threshold and
\* has no strictly greater neighbour inside the spectrogram.
Eligible(t, f) ==
    LET sg == spectrogram[1]
        n == extractor.NeighborhoodSize
        band == FreqBand(extractor, sg)
    IN  /\ band.min <= f
        /\ f <= band.max
        /\ RGe(sg.Data[t + 1][f + 1], EffectiveThreshold(extractor, sg))
        /\ \A dt \in (-n)..n, df \in (-n)..n :
               (/\ ~(dt = 0 /\ df = 0)
                /\ t + dt >= 0 /\ t + dt < sg.TimeBins
                /\ f + df >= 0 /\ f + df < sg.FreqBins)
                   => ~RGt(sg.Data[t + dt + 1][f + df + 1], sg.Data[t + 1][f + 1])

\* (t2, f2) lies in the neighbourhood of (t1, f1) and has its amplitude.
TiedWith(t1, f1, t2, f2) ==
    /\ <<t1, f1>> # <<t2, f2>>
    /\ t2 - t1 \in (-extractor.NeighborhoodSize)..extractor.NeighborhoodSize
    /\ f2 - f1 \in (-extractor.NeighborhoodSize)..extractor.NeighborhoodSize
    /\ spectrogram[1].Data[t1 + 1][f1 + 1] = spectrogram[1].Data[t2 + 1][f2 + 1]

\* The cap of MaxPeaksPerFrame drops no peak of frame t.
CapDropsNothing(t) ==
    Len(FramePeaks(extractor, spectrogram[1], t)) <= extractor.MaxPeaksPerFrame

\* The pairs of tied eligible bins, the first of each pair first in scan
\* order (frame by frame, bin by bin), in frames whose peaks are all kept.
TiedPairs ==
    LET sg == spectrogram[1]
        cells == (0..(sg.TimeBins - 1)) \X (0..(sg.FreqBins - 1))
    IN  {pair \in cells \X cells :
            LET a == pair[1]
                b == pair[2]
            IN  /\ a[1] < b[1] \/ (a[1] = b[1] /\ a[2] < b[2])
                /\ TiedWith(a[1], a[2], b[1], b[2])
                /\ Eligible(a[1], a[2])
                /\ Eligible(b[1], b[2])
                /\ CapDropsNothing(a[1])
                /\ CapDropsNothing(b[1])}

\* C24, as claimed: first-seen wins among ties: when two in-band bins of
\* equal amplitude above the threshold lie within each other's neighbourhood
\* and neither has a strictly greater neighbour, exactly one of them, the
\* first in scan order, is declared a landmark.
C24_FirstSeenWins ==
    Extracted =>
        \A pair \in TiedPairs :
            /\ Declared(pair[1][1], pair[1][2])
            /\ ~Declared(pair[2][1], pair[2][2])

\* C24, amended: when two in-band bins of equal amplitude above the threshold
\* lie within each other's neighbourhood and neither has a strictly greater
\* neighbour, both of them are declared landmarks, unless the cap of
\* MaxPeaksPerFrame drops peaks of their frames.
C24_TiesBothDeclared ==
    Extracted =>
        \A pair \in TiedPairs :
            /\ Declared(pair[1][1], pair[1][2])
            /\ Declared(pair[2][1], pair[2][2])

\* Bins 1 and 2 of the one frame are tied neighbours, and both are landmarks.
C24_Witness ==
    /\ Extracted
    /\ extractor.NeighborhoodSize = 1
    /\ spectrogram[1].TimeBins = 1
    /\ spectrogram[1].FreqBins = 3
    /\ spectrogram[1].Data[1] = <<Rat(1, 2), One, One>>
    /\ <<<<0, 1>>, <<0, 2>>>> \in TiedPairs
    /\ Declared(0, 1)
    /\ Declared(0, 2)

\* The landmarks returned for frame t, as indices into peaks.
Retained(t) == {i \in DOMAIN peaks : peaks[i].TimeIndex = t}

\* The qualifying candidates of frame t: the bins of the scanned band at or
\* above the threshold that are local maxima.
Candidates(t) ==
    LET framePeaks == FramePeaks(extractor, spectrogram[1], t)
    IN  {framePeaks[k] : k \in DOMAIN framePeaks}

\* C5: for every time frame, ExtractPeaks returns at most MaxPeaksPerFrame
\* landmarks of that frame, and when the frame has more qualifying candidates
\* than MaxPeaksPerFrame the retained ones are the MaxPeaksPerFrame highest:
\* no discarded candidate has an amplitude strictly greater than a retained
\* one.
C5_PeakCap ==
    Extracted =>
        \A t \in 0..(spectrogram[1].TimeBins - 1) :
            /\ Cardinality(Retained(t)) <= extractor.MaxPeaksPerFrame
            /\ Cardinality(Candidates(t)) > extractor.MaxPeaksPerFrame =>
                   /\ Cardinality(Retained(t)) = extractor.MaxPeaksPerFrame
                   /\ {peaks[i] : i \in Retained(t)} \subseteq Candidates(t)
                   /\ \A c \in Candidates(t) \ {peaks[i] : i \in Retained(t)} :
                          \A i \in Retained(t) :
                              ~RGt(c.Amplitude, peaks[i].Amplitude)

\* A frame had a candidate of amplitude 1 and one of amplitude 1/2, and with
\* MaxPeaksPerFrame = 1 one landmark was returned for it.
C5_Witness ==
    /\ Extracted
    /\ extractor.MaxPeaksPerFrame = 1
    /\ spectrogram[1].TimeBins = 1
    /\ \E c, d \in Candidates(0) : c.Amplitude = One /\ d.Amplitude = Rat(1, 2)
    /\ Len(peaks) = 1

\* C6: the landmark list returned by ExtractPeaks is ordered by TimeIndex
\* ascending, and among landmarks with the same TimeIndex by Amplitude
\* descending (non-increasing).
C6_PeakOrder ==
    Extracted =>
        \A i, j \in DOMAIN peaks :
            i < j =>
                /\ peaks[i].TimeIndex <= peaks[j].TimeIndex
                /\ peaks[i].TimeIndex = peaks[j].TimeIndex
                       => RGe(peaks[i].Amplitude, peaks[j].Amplitude)

\* Landmarks of two frames were returned, two of them of different
\* amplitudes in the same frame with the lower one at the lower frequency.
C6_Witness ==
    /\ Extracted
    /\ \E i, j \in DOMAIN peaks :
           /\ i < j
           /\ peaks[i].TimeIndex = peaks[j].TimeIndex
           /\ RGt(peaks[i].Amplitude, peaks[j].Amplitude)
           /\ peaks[i].FreqIndex > peaks[j].FreqIndex
    /\ \E i, j \in DOMAIN peaks : peaks[i].TimeIndex < peaks[j].TimeIndex
    /\ RLe(extractor.MinFrequency, RInt(100))

\* C19, as claimed: fingerprinting an empty spectrogram (zero time frames)
\* is not an error: ExtractPeaks on a spectrogram with no frames returns an
\* empty landmark list together with a nil error.
C19_EmptySpectrogram ==
    (/\ call.name = "ExtractPeaks"
     /\ spectrogram # <<>>
     /\ spectrogram[1].TimeBins = 0
     /\ spectrogram[1].Data = <<>>) =>
        (~err /\ peaks = <<>>)

\* Whether every sample of the buffer is zero.
Silent == \A i \in DOMAIN data.Samples : data.Samples[i] = Zero

\* C14, as claimed: for an all-zero (silent) mono buffer with at least W
\* samples, ComputeSpectrogram followed by ExtractPeaks with the default
\* peak-extractor configuration returns an empty landmark list and no error,
\* both with and without log scaling and per-frame normalization enabled.
C14_SilentNoPeaks ==
    (/\ call.name = "ExtractPeaks"
     /\ spectrogram # <<>>
     /\ extractor = NewPeakExtractor
     /\ data.Channels = 1
     /\ Silent
     /\ Len(data.Samples) >= analyzer.WindowSize) =>
        (~err /\ peaks = <<>>)

-----------------------------------------------------------------------------
(* Claims about the loaders.                                               *)

\* C16, as claimed: the AudioUtils returned by NewAudioUtils holds exactly
\* three loaders, one for each of the formats wav, mp3 and flac, so that
\* LoadAndPreprocess on a path with any of these three extensions hands the
\* file to a loader that accepts that format rather than to a loader that
\* rejects it as an unsupported format.
C16_ThreeLoaders ==
    (call.name = "LoadAndPreprocess" /\ input.ext \in AudioFormats) =>
        /\ input.ext \in LoaderFormats(NewAudioUtils)
        /\ ~err
        /\ ret # <<>>

\* C17, as claimed: for every integer PCM sample value representable at the
\* stream's bit depth b (from -2^(b-1) to 2^(b-1)-1), the floating-point
\* sample produced by the WAV, MP3 and FLAC loaders lies in [-1, 1].
C17_SamplesInRange ==
    (call.name = "Load" /\ ~err) =>
        \A i \in DOMAIN ret[1].Samples :
            /\ RGe(ret[1].Samples[i], RInt(-1))
            /\ RLe(ret[1].Samples[i], One)

\* C20: CalculateZeroCrossingRate returns (number of indices i >= 1 where
\* exactly one of samples[i-1], samples[i] is negative, zero counting as
\* non-negative) divided by (len(samples) - 1), and returns 0 for inputs of
\* length 0 or 1; the result is always in [0, 1].
C20_ZeroCrossingRate ==
    call.name = "CalculateZeroCrossingRate" =>
        LET samples == data.Samples
            n == Len(samples)
            Negative(i) == samples[i][1] < 0
            crossings == Cardinality({i \in 2..n : Negative(i - 1) # Negative(i)})
        IN  /\ n <= 1 => ret[1] = Zero
            /\ n >= 2 => ret[1] = Rat(crossings, n - 1)
            /\ RGe(ret[1], Zero)
            /\ RLe(ret[1], One)

\* Five samples, a zero among them, with two crossings in their four
\* transitions: the rate is 1/2.
C20_Witness ==
    /\ call.name = "CalculateZeroCrossingRate"
    /\ Len(data.Samples) = 5
    /\ \E i \in 2..5 : data.Samples[i] = Zero /\ data.Samples[i - 1][1] < 0
    /\ ret[1] = Rat(1, 2)

-----------------------------------------------------------------------------
(* Claims about the command-line programs.                                 *)

\* C21, as claimed: the audioinfo and spectrogram command-line programs exit
\* with code 1 on a usage or input error (missing file argument, nonexistent
\* file, load/preprocess failure), with code 2 when a processing step fails
\* (spectrogram computation, output directory creation or image saving), and
\* with code 0 only when every step succeeded.
C21_ExitCodes ==
    call.name = "main" =>
        /\ call.failed \in {"usage", "stat", "load"} => ret[1] = 1
        /\ call.failed \in {"spectrogram", "mkdir", "save"} => ret[1] = 2
        /\ ret[1] = 0 => call.failed = "none"

\* Whether the peak fails no criterion present in the options.
Satisfies(peak, options) ==
    LET Present(key) == key \in DOMAIN options
    IN  /\ Present("min_frequency") =>
               RLe(options["min_frequency"].val, peak.Frequency)
        /\ Present("max_frequency") =>
               RLe(peak.Frequency, options["max_frequency"].val)
        /\ Present("amplitude_threshold") =>
               RGe(peak.Amplitude, options["amplitude_threshold"].val)
        /\ Present("min_time") => RLe(options["min_time"].val, peak.Time)
        /\ Present("max_time") => RLe(peak.Time, options["max_time"].val)

\* C30, as claimed: FilterPeaks returns exactly the order-preserving
\* subsequence of the input peaks that satisfy every criterion present in
\* the options (min_frequency <= Frequency, Frequency <= max_frequency,
\* Amplitude >= amplitude_threshold, min_time <= Time, Time <= max_time,
\* bounds inclusive); criteria absent from the options filter nothing, and
\* applying FilterPeaks twice with the same options gives the same result
\* as applying it once.
C30_FilterPeaks ==
    call.name = "FilterPeaks" =>
        LET Passes(peak) == Satisfies(peak, arg)
        IN  /\ peaks = SelectSeq(before, Passes)
            /\ call.calls >= 2 => peaks = before

-----------------------------------------------------------------------------
(* Claims about the vector index.                                          *)

\* C22: adding a track is atomic with respect to identification: for any
\* interleaving of one AddTrack/Add call with concurrent Identify/Search
\* calls, each search observes either none of the track's vectors and no
\* metadata for it, or all of its vectors together with its metadata, never
\* a partial insert.
C22_AtomicAdd ==
    call.name = "index" =>
        \A s \in Searchers :
            ret[s] # <<>> =>
                \/ ret[s][1].vectors = {} /\ ~ret[s][1].metadata
                \/ ret[s][1].vectors = input.vectors /\ ret[s][1].metadata

\* One search returned before the track was in and saw nothing of it, the
\* other ran after the Add began and saw both its vectors and its metadata.
C22_Witness ==
    /\ call.name = "index"
    /\ call.add = "done"
    /\ Cardinality(input.vectors) = 2
    /\ \E s, t \in Searchers :
           /\ ret[s] = <<NothingRead>>
           /\ ret[t] = <<[vectors |-> input.vectors, metadata |-> TRUE]>>

-----------------------------------------------------------------------------
(* Claims about the PCM processor.                                         *)

\* The largest absolute value among samples (zero when there are none).
PeakAbs(samples) ==
    IF samples = <<>> THEN Zero
    ELSE CHOOSE m \in {RAbs(samples[i]) : i \in DOMAIN samples} :
             \A j \in DOMAIN samples : RLe(RAbs(samples[j]), m)

\* C7: ConvertToMono on a 2-channel buffer returns a 1-channel buffer of
\* length len(Samples)/2 with m[i] = (Samples[2i] + Samples[2i+1]) / 2 and the
\* SampleRate and Duration of its input; on a 1-channel buffer it returns the
\* buffer unchanged; for any other channel count it returns an error and nil.
C7_ConvertToMono ==
    op.name = "ConvertToMono" =>
        IF before.Channels = 2
        THEN /\ ~err
             /\ Len(ret) = 1
             /\ ret[1].Channels = 1
             /\ Len(ret[1].Samples) = Len(before.Samples) \div 2
             /\ \A i \in 1..Len(ret[1].Samples) :
                    RMul(RInt(2), ret[1].Samples[i]) =
                        RAdd(before.Samples[2 * i - 1], before.Samples[2 * i])
             /\ ret[1].SampleRate = before.SampleRate
             /\ ret[1].Duration = before.Duration
        ELSE IF before.Channels = 1
        THEN ~err /\ ret = <<before>>
        ELSE err /\ ret = <<>>

\* A stereo frame with different left and right samples has been mixed down.
C7_Witness ==
    /\ op.name = "ConvertToMono"
    /\ before.Channels = 2
    /\ Len(before.Samples) = 2
    /\ before.Samples[1] # before.Samples[2]
    /\ ~err
    /\ Len(ret[1].Samples) = 1

\* C8, as claimed: ResampleTo to a different rate returns SampleRate = target,
\* the same channel count and exactly floor(N * target / orig) frames per
\* channel; to the same rate it returns the samples unchanged.
C8_ResampleFrames ==
    op.name = "ResampleTo" =>
        /\ ~err
        /\ Len(ret) = 1
        /\ IF op.target # before.SampleRate
           THEN /\ ret[1].SampleRate = op.target
                /\ ret[1].Channels = before.Channels
                /\ Len(ret[1].Samples) =
                       (((Len(before.Samples) \div before.Channels) * op.target)
                            \div before.SampleRate) * before.Channels
           ELSE ret[1].Samples = before.Samples

\* C9: with M the largest |sample| of the input, Normalize returns the
\* samples unchanged if the buffer is empty, M < 0.001 or |M - 1| < 0.001, and
\* otherwise every sample divided by M, so that the largest |sample| is 1.
C9_Normalize ==
    op.name = "Normalize" =>
        LET M == PeakAbs(before.Samples)
        IN  /\ ~err
            /\ Len(ret) = 1
            /\ IF \/ before.Samples = <<>>
                  \/ RLt(M, Rat(1, 1000))
                  \/ RLt(RAbs(RSub(M, One)), Rat(1, 1000))
               THEN ret[1].Samples = before.Samples
               ELSE /\ Len(ret[1].Samples) = Len(before.Samples)
                    /\ \A i \in DOMAIN before.Samples :
                           ret[1].Samples[i] = RDiv(before.Samples[i], M)
                    /\ PeakAbs(ret[1].Samples) = One

\* A buffer whose peak is neither negligible nor close to 1 has been scaled.
C9_Witness ==
    /\ op.name = "Normalize"
    /\ ~err
    /\ ret[1].Samples # before.Samples
    /\ PeakAbs(before.Samples) = Rat(1, 2)

\* Whether the last two calls were Preprocess with the same target rate and
\* mono flag, the first of them successful.
PreprocessedTwice ==
    /\ Len(hist) >= 2
    /\ hist[Len(hist)].name = "Preprocess"
    /\ hist[Len(hist) - 1].name = "Preprocess"
    /\ hist[Len(hist)].target = hist[Len(hist) - 1].target
    /\ hist[Len(hist)].mono = hist[Len(hist) - 1].mono
    /\ ~hist[Len(hist) - 1].err

\* C10: preprocessing is idempotent: preprocessing the output of a
\* preprocessing with the same target rate and mono flag succeeds and returns
\* a buffer with identical samples, sample rate, channel count and duration.
C10_PreprocessIdempotent ==
    PreprocessedTwice => ~err /\ ret = <<before>>

\* A stereo buffer at another rate was mixed down, resampled and normalized,
\* and the result preprocessed again.
C10_Witness ==
    /\ PreprocessedTwice
    /\ Len(hist) = 2
    /\ input.Channels = 2
    /\ op.mono
    /\ input.SampleRate # op.target
    /\ before.Channels = 1
    /\ before.Samples # <<>>
    /\ before.Samples # input.Samples
    /\ ~err

\* The buffer d is consistent: its samples are whole frames of d.Channels
\* values and its Duration is frames / SampleRate.
Consistent(d) ==
    /\ d.Channels >= 1
    /\ Len(d.Samples) = (Len(d.Samples) \div d.Channels) * d.Channels
    /\ d.Duration = Rat(Len(d.Samples) \div d.Channels, d.SampleRate)

\* C28: buffer consistency (len(Samples) = frames * Channels and Duration =
\* frames / SampleRate) is preserved by any sequence of ConvertToMono,
\* ResampleTo (with a positive target rate) and Normalize applied to a
\* consistent buffer: every buffer a call returns, and the buffer the caller
\* holds after it, is consistent.
C28_ConsistencyPreserved ==
    Consistent(input) =>
        /\ Consistent(data)
        /\ ret # <<>> => Consistent(ret[1])

\* A stereo buffer of one frame was converted to mono and then resampled to
\* another rate: the buffer held has one channel, one frame and the new rate.
C28_Witness ==
    /\ Len(hist) = 2
    /\ hist[1].name = "ConvertToMono"
    /\ hist[2].name = "ResampleTo"
    /\ ~hist[1].err
    /\ ~hist[2].err
    /\ input.Channels = 2
    /\ Len(input.Samples) = 2
    /\ input.SampleRate = 2
    /\ data.SampleRate = 3
    /\ data.Channels = 1
    /\ Len(data.Samples) = 1
    /\ data.Duration = Rat(1, 3)

\* C29: ConvertToMono, Normalize and ResampleTo never modify the AudioData
\* passed in, on success and on error: after the call the argument has the
\* samples, sample rate, channel count and duration it had before it.
C29_ArgumentUnchanged ==
    (hist # <<>> /\ op.name \in {"ConvertToMono", "Normalize", "ResampleTo"}) =>
        arg = before

\* ConvertToMono rejected a buffer of three channels, then Normalize scaled
\* it: the buffer returned differs from the argument, which is as it was.
C29_Witness ==
    /\ Len(hist) = 2
    /\ hist[1].name = "ConvertToMono"
    /\ hist[1].err
    /\ hist[2].name = "Normalize"
    /\ ~err
    /\ before = input
    /\ input.Channels = 3
    /\ ret[1].Samples # before.Samples
    /\ arg = before

=============================================================================
